---- MODULE Spec2Model ----
(***************************************************************************)
(* Ally Platform: the Configuration Manager (backend/app/config_manager.py),*)
(* the configuration loader and its Redis cache (backend/app/core/         *)
(* config.py, core/environment.py) and ChatService.add_message             *)
(* (backend/app/services/database_service.py).                             *)
(*                                                                         *)
(* A configuration document is a Python dict: here a function whose        *)
(* DOMAIN is the set of keys that are present.  A section is again such a  *)
(* function.  A table is a set of rows, the Redis cache a function from    *)
(* the keys that are set to the stored text.                               *)
(***************************************************************************)
EXTENDS Integers, Sequences, FiniteSets, TLC

VARIABLES
    db,        \* table client_configurations: a set of rows
    cache,     \* Redis: key -> stored text, for the keys that are set
    last,      \* the call that completed last, with what it returned
    deleted,   \* history: clients whose delete returned True, no save since
    clock,     \* the wall clock: the last timestamp handed out
    default_config,  \* ConfigurationManager.default_config
    pc,        \* per worker: the step of the call it is in
    call,      \* per worker: the call's arguments, locals and result
    lastCommit,  \* history: the save that committed last (worker, document)
    vdoc,      \* the document handed to validation
    vres,      \* what validate_configuration did with vdoc
    sres,      \* what validate_config_structure returned for vdoc
    chat_session,  \* the row of one chat session in table chat_sessions
    messages,  \* table messages: the rows of that chat session, oldest first
    mpc,       \* per worker: the step of add_message it is in
    mcall,     \* per worker: the arguments and the session of add_message
    files,     \* directory config/: file name -> what the file holds
    memo,      \* lru_cache of load_config: call arguments -> returned dict
    flast,     \* the call of core/config.py that completed last
    env,       \* os.environ: variable name -> value, for the variables set
    REDIS_AVAILABLE  \* core/config.py: the ping at import succeeded

chat_vars == <<chat_session, messages, mpc, mcall>>

file_vars == <<files, memo, flast, env, REDIS_AVAILABLE>>

\* The state outside the Configuration Manager.
aside == <<chat_vars, file_vars>>

vars ==
    <<db, cache, last, deleted, clock, default_config, pc, call, lastCommit,
      vdoc, vres, sres, aside>>

-----------------------------------------------------------------------------
(* Bounds *)

\* The clock hands out the timestamps 1..MaxTime, one per committed write;
\* documents are submitted with lastUpdated 0.
MaxTime == 3

Clients == {"acme", "demo"}

-----------------------------------------------------------------------------
(* Python dict helpers *)

\* d.get(k, {}) for a section: the empty dict when the key is absent.
GetSection(d, k) == IF k \in DOMAIN d THEN d[k] ELSE <<>>

\* A dict from a record of options: <<>> leaves the key out, <<v>> sets it.
Dict(o) == [k \in {j \in DOMAIN o : o[j] # <<>>} |-> o[k][1]]

\* x in list
InList(x, list) == \E i \in 1..Len(list) : list[i] = x

-----------------------------------------------------------------------------
(* The Pydantic models, config_manager.py 39-124.  A pattern is modelled   *)
(* by the strings of the universe that match it.                           *)

\* ^\d+\.\d+\.\d+$
VersionPattern == {"1.0.0", "2.1.0"}

\* ^[a-zA-Z0-9_-]{3,50}$
ClientIdPattern == {"acme", "demo", "ally-demo"}

\* ^#([A-Fa-f0-9]{6}|[A-Fa-f0-9]{3})$
ColorPattern == {"#FF0000", "#3B82F6"}

\* ^(modern|classic|minimal|dashboard)$
LayoutPattern == {"modern", "classic", "minimal", "dashboard"}

\* The pattern of AIConfig.model.
AIModelPattern ==
    {"gemini-2.5-flash-lite", "gemini-2.5-flash", "gemini-2.0-flash-exp",
     "gpt-4o", "gpt-4o-mini", "claude-3-5-sonnet", "claude-3-5-haiku"}

RateLimitMin == 10
RateLimitMax == 10000

ConfigMeta(m) ==
    /\ {"version", "clientId", "lastUpdated"} \subseteq DOMAIN m
    /\ m.version \in VersionPattern
    /\ m.clientId \in ClientIdPattern

BrandingConfig(b) ==
    /\ {"companyName", "primaryColor"} \subseteq DOMAIN b
    /\ b.primaryColor \in ColorPattern

\* Every field has a default and unknown keys are ignored.
FeaturesConfig(f) == \A k \in DOMAIN f : f[k] \in BOOLEAN

UIConfig(u) == "layout" \in DOMAIN u => u.layout \in LayoutPattern

AIConfig(a) ==
    /\ "model" \in DOMAIN a
    /\ a.model \in AIModelPattern

SecurityConfig(s) ==
    "rateLimit" \in DOMAIN s =>
        s.rateLimit >= RateLimitMin /\ s.rateLimit <= RateLimitMax

\* ClientConfigModel(**config) does not raise.
ClientConfigModel_Alt(config) ==
    /\ {"meta", "branding", "features", "ui", "security"} \subseteq DOMAIN config
    /\ ConfigMeta(config.meta)
    /\ BrandingConfig(config.branding)
    /\ FeaturesConfig(config.features)
    /\ UIConfig(config.ui)
    /\ ("ai" \in DOMAIN config => AIConfig(config.ai))
    /\ SecurityConfig(config.security)

ClientConfigModel(config) ==
    /\ {"meta", "branding", "features", "ui", "ai", "security"}
           \subseteq DOMAIN config
    /\ ConfigMeta(config.meta)
    /\ BrandingConfig(config.branding)
    /\ FeaturesConfig(config.features)
    /\ UIConfig(config.ui)
    /\ AIConfig(config.ai)
    /\ SecurityConfig(config.security)

-----------------------------------------------------------------------------
(* validate_configuration and its business rules, config_manager.py 234-289 *)

available_models_Alt ==
    <<"gemini-2.5-flash-lite", "gemini-2.5-flash", "gemini-2.0-flash-exp",
      "gpt-4o", "gpt-4o-mini", "claude-3-5-sonnet">>

available_models ==
    <<"gemini-2.5-flash-lite", "gemini-2.5-flash", "gemini-2.0-flash-exp",
      "gpt-4o", "gpt-4o-mini", "claude-3-5-sonnet", "claude-3-5-haiku">>

_is_model_available(model) == InList(model, available_models)

\* The language rule raises ValueError: `default_lang and default_lang not
\* in supported_langs`.  A missing default is None and an empty string is
\* falsy: neither reaches the membership test.
LanguageRuleRaises(config) ==
    LET languages == GetSection(config, "languages")
        supported_langs ==
            IF "supported" \in DOMAIN languages THEN languages.supported ELSE <<>>
    IN  /\ "default" \in DOMAIN languages
        /\ languages.default # ""
        /\ ~InList(languages.default, supported_langs)

\* The model rule raises ValueError.
ModelRuleRaises(config) ==
    LET ai_config == GetSection(config, "ai")
    IN  /\ "model" \in DOMAIN ai_config
        /\ ai_config.model # ""
        /\ ~_is_model_available(ai_config.model)

\* _validate_business_rules raises.
_validate_business_rules_raises(config) ==
    LanguageRuleRaises(config) \/ ModelRuleRaises(config)

Returned(v) == [ok |-> TRUE, code |-> "", message |-> "", value |-> v]

\* raise ConfigurationError(message, code)
ConfigurationError(message, code) ==
    [ok |-> FALSE, code |-> code, message |-> message, value |-> FALSE]

validate_configuration(config) ==
    IF ~ClientConfigModel(config)
    THEN ConfigurationError("Validation failed", "VALIDATION_ERROR")
    ELSE IF _validate_business_rules_raises(config)
    THEN ConfigurationError("Validation error", "VALIDATION_ERROR")
    ELSE Returned(TRUE)

-----------------------------------------------------------------------------
(* validate_config_structure, core/config.py 401-438 *)

required_sections == <<"meta", "branding", "features", "ui", "ai">>

validate_config_structure(config_data) ==
    /\ \A i \in 1..Len(required_sections) :
           required_sections[i] \in DOMAIN config_data
    /\ {"version", "clientId", "lastUpdated"}
           \subseteq DOMAIN GetSection(config_data, "meta")
    /\ {"companyName", "primaryColor"}
           \subseteq DOMAIN GetSection(config_data, "branding")
    /\ "model" \in DOMAIN GetSection(config_data, "ai")

-----------------------------------------------------------------------------
(* The documents of the model *)

MetaOpts ==
    {<<>>,
     <<[version |-> "1.0.0", clientId |-> "acme", lastUpdated |-> 0]>>,
     <<[version |-> "v1", clientId |-> "acme", lastUpdated |-> 0]>>,
     <<[version |-> "1.0.0", clientId |-> "acme"]>>}

BrandingOpts ==
    {<<>>,
     <<[companyName |-> "Acme", primaryColor |-> "#FF0000"]>>,
     <<[companyName |-> "Acme", primaryColor |-> "red"]>>}

FeaturesOpts ==
    {<<>>, << <<>> >>, <<[chatEnabled |-> TRUE, voiceEnabled |-> FALSE]>>}

UIOpts == {<<>>, << <<>> >>, <<[layout |-> "fancy"]>>}

AIOpts ==
    {<<>>, << <<>> >>}
        \cup {<<[model |-> m]>> : m \in AIModelPattern \cup {"invalid-model"}}

SecurityOpts == {<<>>, << <<>> >>, <<[rateLimit |-> 5]>>}

LanguagesOpts ==
    {<<>>} \cup
    {<<Dict([default |-> dl, supported |-> sl])>> :
        dl \in {<<>>, <<"">>, <<"en">>, <<"de">>},
        sl \in {<<>>, << <<>> >>, << <<"en", "fr">> >>}}

\* Every document validation is tried on.
AllDocs ==
    {Dict(o) : o \in [meta : MetaOpts, branding : BrandingOpts,
                       features : FeaturesOpts, ui : UIOpts, ai : AIOpts,
                       security : SecurityOpts, languages : LanguagesOpts]}

\* The end-to-end scenario's document: gpt-4o, default en of [en, fr].
DocA ==
    [meta |-> [version |-> "1.0.0", clientId |-> "acme", lastUpdated |-> 0],
     branding |-> [companyName |-> "Acme", primaryColor |-> "#FF0000"],
     features |-> [chatEnabled |-> TRUE, voiceEnabled |-> FALSE],
     ui |-> [layout |-> "modern"],
     ai |-> [model |-> "gpt-4o"],
     security |-> [rateLimit |-> 1000],
     languages |-> [default |-> "en", supported |-> <<"en", "fr">>]]

\* Another valid document, without a languages section.
DocB ==
    [meta |-> [version |-> "2.1.0", clientId |-> "demo", lastUpdated |-> 0],
     branding |-> [companyName |-> "Demo", primaryColor |-> "#3B82F6"],
     features |-> [chatEnabled |-> FALSE],
     ui |-> <<>>,
     ai |-> [model |-> "claude-3-5-haiku"],
     security |-> <<>>]

\* DocA with languages.default = "de", the supported list unchanged.
DocBadLang == [DocA EXCEPT !.languages.default = "de"]

\* DocA with languages.default = "", the supported list unchanged.
DocEmptyLang == [DocA EXCEPT !.languages.default = ""]

\* DocA without its ai section.
DocNoAI == [k \in DOMAIN DocA \ {"ai"} |-> DocA[k]]

SaveDocs == {DocA, DocB, DocBadLang, DocEmptyLang, DocNoAI}

\* default-config.json as loaded, or {} when the file is missing.
DefaultConfigs ==
    {<<>>,
     [meta |-> [version |-> "1.0.0", clientId |-> "ally-demo", lastUpdated |-> 0],
      branding |-> [companyName |-> "Ally", primaryColor |-> "#3B82F6"],
      features |-> [chatEnabled |-> TRUE, voiceEnabled |-> FALSE],
      ui |-> [layout |-> "modern"],
      ai |-> [model |-> "gemini-2.5-flash-lite"],
      security |-> <<>>]}

FeatureNames == {"chatEnabled", "voiceEnabled", "nonexistentFlag"}

-----------------------------------------------------------------------------
(* Serialisation, cache and table helpers *)

\* json.dumps(config, default=str): the stored text of a document.
json_dumps(config) == <<"json", config>>

\* json.loads(text)
json_loads(text) == text[2]

\* `if config:` on a dict
Truthy(config) == DOMAIN config # {}

_get_cache_key(client_id) == <<"config:client", client_id>>

\* _get_from_cache: <<>> is None, <<d>> a parsed document.  A Redis error
\* is logged and None returned.
_get_from_cache(client_id, fails) ==
    IF ~fails /\ _get_cache_key(client_id) \in DOMAIN cache
    THEN <<json_loads(cache[_get_cache_key(client_id)])>>
    ELSE <<>>

\* The cache after _set_cache: setex, a Redis error is logged.
_set_cache(client_id, config, fails) ==
    IF fails THEN cache
    ELSE [k \in DOMAIN cache \cup {_get_cache_key(client_id)} |->
            IF k = _get_cache_key(client_id) THEN json_dumps(config)
            ELSE cache[k]]

_invalidate_cache_Alt(client_id, fails) == cache

\* The cache after _invalidate_cache: delete, a Redis error is logged.
_invalidate_cache(client_id, fails) ==
    IF fails THEN cache
    ELSE [k \in DOMAIN cache \ {_get_cache_key(client_id)} |-> cache[k]]

\* query(ClientConfiguration).filter(client_id == c): at most one row, as
\* client_id is the primary key.
RowsOf_Alt(client_id) == {}

\* ... .filter(ClientConfiguration.client_id == client_id)
RowsOf(client_id) == {r \in db : r.client_id = client_id}

ActiveRowsOf_Alt(client_id) == {r \in db : r.client_id = client_id}

\* ... .filter(client_id == c, is_active == True)
ActiveRowsOf(client_id) == {r \in RowsOf(client_id) : r.is_active}

\* .first(): <<>> is None
First(rows) == IF rows = {} THEN <<>> ELSE <<CHOOSE r \in rows : TRUE>>

\* The Redis and database calls of one request that raise.
Faults ==
    [cache_get : BOOLEAN, cache_set : BOOLEAN, cache_delete : BOOLEAN,
     db_query : BOOLEAN, db_commit : BOOLEAN]

NoFault ==
    [cache_get |-> FALSE, cache_set |-> FALSE, cache_delete |-> FALSE,
     db_query |-> FALSE, db_commit |-> FALSE]

\* A completed call.
Done(op, client_id, arg, res, source, after) ==
    [op |-> op, client |-> client_id, arg |-> arg, res |-> res,
     source |-> source, afterSave |-> after]

Idle == [p \in {1, 2} |-> "idle"]

NoCall == [p \in {1, 2} |-> <<>>]

-----------------------------------------------------------------------------
(* get_configuration, config_manager.py 291-340 *)

GetResult_Alt(client_id, f) ==
    LET cached == _get_from_cache(client_id, f.cache_get)
        db_config == First(ActiveRowsOf(client_id))
    IN  IF f.cache_get \/ f.cache_set \/ f.db_query
        THEN [res |-> ConfigurationError("Failed to retrieve configuration",
                                         "RETRIEVAL_ERROR"),
              source |-> "error", cache |-> cache]
        ELSE IF cached # <<>> /\ Truthy(cached[1])
        THEN [res |-> Returned(cached[1]), source |-> "cache", cache |-> cache]
        ELSE IF db_config # <<>>
        THEN [res |-> Returned(json_loads(db_config[1].config_data)),
              source |-> "database",
              cache |-> _set_cache(client_id,
                                   json_loads(db_config[1].config_data),
                                   FALSE)]
        ELSE [res |-> Returned(default_config), source |-> "default",
              cache |-> cache]

\* What get_configuration(client_id) returns and the cache it leaves:
\* source names the branch taken (the three log lines), "error" the raise.
GetResult(client_id, f) ==
    LET cached == _get_from_cache(client_id, f.cache_get)
        db_config == First(ActiveRowsOf(client_id))
    IN  IF cached # <<>> /\ Truthy(cached[1])
        THEN [res |-> Returned(cached[1]), source |-> "cache", cache |-> cache]
        ELSE IF f.db_query
        THEN [res |-> ConfigurationError("Failed to retrieve configuration",
                                         "RETRIEVAL_ERROR"),
              source |-> "error", cache |-> cache]
        ELSE IF db_config # <<>>
        THEN [res |-> Returned(json_loads(db_config[1].config_data)),
              source |-> "database",
              cache |-> _set_cache(client_id,
                                   json_loads(db_config[1].config_data),
                                   f.cache_set)]
        ELSE [res |-> Returned(default_config), source |-> "default",
              cache |-> cache]

\* The document of a successful save of client_id that completed just
\* before this call, if there is one.
JustSaved(client_id) ==
    IF last.op = "save" /\ last.client = client_id /\ last.res.ok
    THEN <<last.arg>> ELSE <<>>

get_configuration(client_id, f) ==
    LET r == GetResult(client_id, f)
    IN  /\ cache' = r.cache
        /\ last' = Done("get", client_id, <<>>, r.res, r.source,
                        JustSaved(client_id))
        /\ UNCHANGED <<db, deleted, clock, default_config, aside, pc, call,
                       lastCommit, vdoc, vres, sres>>

-----------------------------------------------------------------------------
(* save_configuration, config_manager.py 342-395 *)

\* config["meta"]["lastUpdated"] = datetime.now(timezone.utc).isoformat()
Stamp(config, now) == [config EXCEPT !.meta.lastUpdated = now]

UpdatedRow_Alt(existing_config, config, now) ==
    [existing_config EXCEPT !.config_data = json_dumps(config),
                            !.version = config.meta.version,
                            !.updated_at = now,
                            !.is_active = TRUE]

\* The row as the update branch leaves it.
UpdatedRow(existing_config, config, now) ==
    [existing_config EXCEPT !.config_data = json_dumps(config),
                            !.version = config.meta.version,
                            !.updated_at = now]

\* ClientConfiguration(client_id, config_data, version), the defaults of
\* the columns filled in.
NewRow(client_id, config, now) ==
    [client_id |-> client_id, config_data |-> json_dumps(config),
     version |-> config.meta.version, is_active |-> TRUE, updated_at |-> now]

Committed_Alt(old, new) ==
    IF old = <<>> THEN db \cup {new}
    ELSE {r \in db : r.client_id # new.client_id}

\* The table after the commit of a session that changed `old` (<<>>: an
\* added row) into `new`: an INSERT, or an UPDATE of the columns the
\* session changed, of the row whose primary key is new.client_id.
Committed(old, new) ==
    IF old = <<>> THEN db \cup {new}
    ELSE {IF r.client_id = new.client_id
          THEN [k \in DOMAIN r |-> IF new[k] # old[1][k] THEN new[k] ELSE r[k]]
          ELSE r : r \in db}

RolledBack_Alt(old, new) ==
    IF old = <<>> THEN db ELSE (db \ {old[1]}) \cup {new}

\* The table after db.rollback(): the changes of the session (`old` into
\* `new`) were pending, none of them is in the table.
RolledBack(old, new) == db

\* The commit of an added row violates the primary key.
DuplicateKey(old, new) == old = <<>> /\ RowsOf(new.client_id) # {}

SaveError == ConfigurationError("Failed to save configuration", "SAVE_ERROR")

WritesBeforeValidating(client_id, config) == FALSE

\* save_configuration leaves at its first line: validation raised.
SaveRejected(client_id, config) == ~validate_configuration(config).ok

save_configuration(client_id, config, f) ==
    LET now == clock + 1
        stamped == Stamp(config, now)
        existing_config == First(RowsOf(client_id))
        new == IF existing_config # <<>>
               THEN UpdatedRow(existing_config[1], stamped, now)
               ELSE NewRow(client_id, stamped, now)
    IN  /\ clock < MaxTime
        /\ IF SaveRejected(client_id, config)
           THEN /\ last' = Done("save", client_id, config,
                                validate_configuration(config), "", <<>>)
                /\ UNCHANGED <<db, cache, deleted, clock>>
           ELSE IF f.db_query \/ f.db_commit
                   \/ DuplicateKey(existing_config, new)
           THEN /\ last' = Done("save", client_id, config, SaveError, "", <<>>)
                /\ db' = RolledBack(existing_config, new)
                /\ UNCHANGED <<cache, deleted, clock>>
           ELSE /\ db' = Committed(existing_config, new)
                /\ cache' = _invalidate_cache(client_id, f.cache_delete)
                /\ clock' = now
                /\ deleted' = deleted \ {client_id}
                /\ last' = Done("save", client_id, config, Returned(TRUE),
                                "", <<>>)
        /\ UNCHANGED <<default_config, aside, pc, call, lastCommit, vdoc, vres,
                       sres>>

-----------------------------------------------------------------------------
(* delete_configuration, config_manager.py 397-438 *)

DeleteError ==
    ConfigurationError("Failed to delete configuration", "DELETE_ERROR")

\* config.is_active = False; config.updated_at = datetime.utcnow()
DeactivatedRow(config, now) ==
    [config EXCEPT !.is_active = FALSE, !.updated_at = now]

delete_configuration(client_id, f) ==
    LET now == clock + 1
        config == First(RowsOf(client_id))
    IN  /\ clock < MaxTime
        /\ IF f.db_query \/ (config # <<>> /\ f.db_commit)
           THEN /\ last' = Done("delete", client_id, <<>>, DeleteError, "", <<>>)
                /\ db' = RolledBack(config, DeactivatedRow(config[1], now))
                /\ UNCHANGED <<cache, deleted, clock>>
           ELSE IF config # <<>>
           THEN /\ db' = Committed(config, DeactivatedRow(config[1], now))
                /\ cache' = _invalidate_cache(client_id, f.cache_delete)
                /\ clock' = now
                /\ deleted' = deleted \cup {client_id}
                /\ last' = Done("delete", client_id, <<>>, Returned(TRUE),
                                "", <<>>)
           ELSE /\ last' = Done("delete", client_id, <<>>, Returned(FALSE),
                                "", <<>>)
                /\ UNCHANGED <<db, cache, deleted, clock>>
        /\ UNCHANGED <<default_config, aside, pc, call, lastCommit, vdoc, vres,
                       sres>>

-----------------------------------------------------------------------------
(* list_configurations, config_manager.py 440-475 *)

ListError ==
    ConfigurationError("Failed to list configurations", "LIST_ERROR")

ListEntries_Alt ==
    {[clientId |-> r.client_id, version |-> r.version,
      lastUpdated |-> r.updated_at,
      meta |-> GetSection(json_loads(r.config_data), "meta")] : r \in db}

\* One entry per row of the query; the order of the list is the query's.
ListEntries ==
    {[clientId |-> r.client_id, version |-> r.version,
      lastUpdated |-> r.updated_at,
      meta |-> GetSection(json_loads(r.config_data), "meta")] :
        r \in {x \in db : x.is_active}}

list_configurations(f) ==
    /\ last' = Done("list", "", <<>>,
                    IF f.db_query THEN ListError ELSE Returned(ListEntries),
                    "", <<>>)
    /\ UNCHANGED <<db, cache, deleted, clock, default_config, aside, pc, call,
                   lastCommit, vdoc, vres, sres>>

-----------------------------------------------------------------------------
(* get_feature_flag, config_manager.py 477-496 *)

FlagOf_Alt(config, feature_name) ==
    LET features == GetSection(config, "features")
    IN  IF feature_name \in DOMAIN features THEN features[feature_name]
        ELSE TRUE

\* features.get(feature_name, False) of config.get("features", {})
FlagOf(config, feature_name) ==
    LET features == GetSection(config, "features")
    IN  IF feature_name \in DOMAIN features THEN features[feature_name]
        ELSE FALSE

get_feature_flag(client_id, feature_name, f) ==
    LET r == GetResult(client_id, f)
    IN  /\ cache' = r.cache
        /\ last' = Done("flag", client_id, feature_name,
                        IF r.res.ok
                        THEN Returned(FlagOf(r.res.value, feature_name))
                        ELSE Returned(FALSE),
                        r.source, <<>>)
        /\ UNCHANGED <<db, deleted, clock, default_config, aside, pc, call,
                       lastCommit, vdoc, vres, sres>>

-----------------------------------------------------------------------------
(* Redis drops an entry whose TTL has run out. *)

Expire(client_id) ==
    /\ _get_cache_key(client_id) \in DOMAIN cache
    /\ cache' = _invalidate_cache(client_id, FALSE)
    /\ UNCHANGED <<db, last, deleted, clock, default_config, aside, pc, call,
                   lastCommit, vdoc, vres, sres>>

-----------------------------------------------------------------------------
(* core/environment.py: the environment of the process.  A value of a      *)
(* configuration file is a JSON scalar: its type and its text.             *)

StrVal(x) == [t |-> "str", v |-> x]

BoolVal(b) == [t |-> "bool", v |-> IF b THEN "true" ELSE "false"]

IntVal(x) == [t |-> "int", v |-> x]

FloatVal(x) == [t |-> "float", v |-> x]

\* not value, for a scalar
Falsy(val) ==
    \/ val.t = "str" /\ val.v = ""
    \/ val.t = "bool" /\ val.v = "false"
    \/ val.t = "int" /\ val.v = "0"

\* The values the variables of Environments are set to.
EnvStrings ==
    {"", "Env Co", "Fallback Co", "TRUE", "false", "off", "60", "1.5",
     "Production"}

\* str.lower()
Lower(x) ==
    CASE x = "TRUE" -> "true"
      [] x = "Production" -> "production"
      [] x = "Env Co" -> "env co"
      [] x = "Fallback Co" -> "fallback co"
      [] OTHER -> x

\* str.isdigit()
IsDigit(x) == x \in {"60"}

\* "." in x and x.replace(".", "").isdigit()
IsDecimal(x) == x \in {"1.5"}

\* os.getenv(key, default), the default a Python value or None (<<>>)
Getenv(key, default) == IF key \in DOMAIN env THEN <<env[key]>> ELSE default

\* EnvironmentConfig.get(key): the string, <<>> for None
EnvGet(key) == Getenv(key, <<>>)

\* EnvironmentConfig.get(key, default, bool)
EnvGetBool(key, default) ==
    IF key \in DOMAIN env
    THEN Lower(env[key]) \in {"true", "1", "yes", "on"}
    ELSE default

\* EnvironmentConfig.detect_environment
detect_environment ==
    IF {"PRODUCTION", "PROD", "RAILWAY_ENVIRONMENT"} \cap DOMAIN env # {}
    THEN "production"
    ELSE IF "ENVIRONMENT" \in DOMAIN env THEN Lower(env["ENVIRONMENT"])
    ELSE IF "ENV" \in DOMAIN env THEN Lower(env["ENV"])
    ELSE "development"

is_production == detect_environment = "production"

get_feature_flags ==
    [debug_routes |->
         EnvGetBool("ENABLE_DEBUG_ROUTES", detect_environment = "development"),
     admin_panel |-> EnvGetBool("ENABLE_ADMIN_PANEL", TRUE),
     analytics |-> EnvGetBool("ENABLE_ANALYTICS", is_production),
     rate_limiting |-> EnvGetBool("ENABLE_RATE_LIMITING", is_production)]

-----------------------------------------------------------------------------
(* core/config.py: apply_environment_overrides, 248-331 *)

override_mappings ==
    [CONFIG_BRANDING_COMPANY_NAME |-> <<"branding", "companyName">>,
     CONFIG_BRANDING_LOGO_URL |-> <<"branding", "logoUrl">>,
     CONFIG_BRANDING_PRIMARY_COLOR |-> <<"branding", "primaryColor">>,
     CONFIG_BRANDING_SECONDARY_COLOR |-> <<"branding", "secondaryColor">>,
     CONFIG_FEATURES_CHAT_ENABLED |-> <<"features", "chatEnabled">>,
     CONFIG_FEATURES_NOTIFICATIONS_ENABLED |->
         <<"features", "notificationsEnabled">>,
     CONFIG_FEATURES_ANALYTICS_ENABLED |-> <<"features", "analyticsEnabled">>,
     CONFIG_FEATURES_DARK_MODE_ENABLED |-> <<"features", "darkModeEnabled">>,
     CONFIG_UI_THEME |-> <<"ui", "theme">>,
     CONFIG_UI_LANGUAGE |-> <<"ui", "language">>,
     CONFIG_UI_TIMEZONE |-> <<"ui", "timezone">>,
     CONFIG_API_TIMEOUT |-> <<"api", "timeout">>,
     CONFIG_API_RETRY_COUNT |-> <<"api", "retryCount">>,
     CONFIG_API_BASE_URL |-> <<"api", "baseUrl">>,
     CONFIG_COMPANY_NAME |-> <<"company", "name">>,
     CONFIG_COMPANY_CONTACT_EMAIL |-> <<"company", "contactEmail">>,
     CONFIG_COMPANY_SUPPORT_URL |-> <<"company", "supportUrl">>]

\* Lines 298-304: the string of the variable as a bool, an int, a float or
\* as it is.
Converted(env_value) ==
    IF Lower(env_value) \in {"true", "false"}
    THEN BoolVal(Lower(env_value) = "true")
    ELSE IF IsDigit(env_value) THEN IntVal(env_value)
    ELSE IF IsDecimal(env_value) THEN FloatVal(env_value)
    ELSE StrVal(env_value)

\* The variables of override_mappings that are set and write section.key.
SetOverrides(section, key) ==
    {e \in DOMAIN override_mappings \cap DOMAIN env :
        override_mappings[e] = <<section, key>>}

\* Lines 290-309: the sections after the loop.
WithMappings(config_data) ==
    LET touched == {override_mappings[e][1] :
                        e \in DOMAIN override_mappings \cap DOMAIN env}
    IN  [section \in DOMAIN config_data \cup touched |->
            LET base == GetSection(config_data, section)
                keys == {override_mappings[e][2] :
                            e \in {x \in DOMAIN override_mappings \cap DOMAIN env :
                                      override_mappings[x][1] = section}}
            IN  [key \in DOMAIN base \cup keys |->
                    IF key \in keys
                    THEN Converted(env[CHOOSE e \in SetOverrides(section, key) :
                                           TRUE])
                    ELSE base[key]]]

\* Lines 311-323: features.update of the four environment flags.
WithFeatureFlags(config) ==
    LET flags == [debugRoutes |-> BoolVal(get_feature_flags.debug_routes),
                  adminPanel |-> BoolVal(get_feature_flags.admin_panel),
                  analyticsEnabled |-> BoolVal(get_feature_flags.analytics),
                  rateLimiting |-> BoolVal(get_feature_flags.rate_limiting)]
        features == GetSection(config, "features")
    IN  [section \in DOMAIN config \cup {"features"} |->
            IF section = "features"
            THEN [key \in DOMAIN features \cup DOMAIN flags |->
                     IF key \in DOMAIN flags THEN flags[key] ELSE features[key]]
            ELSE config[section]]

\* Lines 325-329: CONFIG_DEFAULT_COMPANY fills an absent or empty
\* branding.companyName.
WithDefaultCompany(config) ==
    LET company_name == EnvGet("CONFIG_DEFAULT_COMPANY")
    IN  IF /\ company_name # <<>>
           /\ company_name[1] # ""
           /\ "branding" \in DOMAIN config
           /\ \/ "companyName" \notin DOMAIN config.branding
              \/ Falsy(config.branding.companyName)
        THEN [config EXCEPT !.branding =
                 [key \in DOMAIN config.branding \cup {"companyName"} |->
                     IF key = "companyName" THEN StrVal(company_name[1])
                     ELSE config.branding[key]]]
        ELSE config

apply_environment_overrides_Alt(config_data) == config_data

\* The dict apply_environment_overrides returns.
apply_environment_overrides(config_data) ==
    WithDefaultCompany(WithFeatureFlags(WithMappings(config_data)))

\* config_data after apply_environment_overrides(config_data): copy() is
\* shallow, the sections config_data has are the dicts the overrides were
\* written into.
AfterOverrides(config_data) ==
    [section \in DOMAIN config_data |->
        apply_environment_overrides(config_data)[section]]

-----------------------------------------------------------------------------
(* core/config.py: the Redis cache of the configuration files, 51-137 *)

\* A Python exception that leaves the call.
Raised(name) == [ok |-> FALSE, code |-> name, message |-> "", value |-> FALSE]

get_redis_key(config_file) == <<"config", config_file>>

\* redis_client.keys("config:*"): the keys of the files and, their text
\* beginning with "config:" too, those of the Configuration Manager.
KeysMatching(rc) == {k \in DOMAIN rc : k[1] \in {"config", "config:client"}}

\* get_cached_config on the Redis content rc: <<>> is None.
get_cached_config(rc, config_file, fails) ==
    IF ~REDIS_AVAILABLE \/ fails \/ get_redis_key(config_file) \notin DOMAIN rc
    THEN <<>>
    ELSE <<json_loads(rc[get_redis_key(config_file)])>>

\* Redis after set_cached_config(config_file, config_data)
set_cached_config(rc, config_file, config_data, fails) ==
    IF ~REDIS_AVAILABLE \/ fails THEN rc
    ELSE [k \in DOMAIN rc \cup {get_redis_key(config_file)} |->
             IF k = get_redis_key(config_file) THEN json_dumps(config_data)
             ELSE rc[k]]

Without(rc, keys) == [k \in DOMAIN rc \ keys |-> rc[k]]

ClearedKeys_Alt(rc, config_file, fails) ==
    IF KeysMatching(rc) = {} THEN {}
    ELSE {CHOOSE k \in KeysMatching(rc) : TRUE}

\* The keys clear_cached_config(config_file) deletes, config_file <<>> for
\* None.
ClearedKeys(rc, config_file, fails) ==
    IF ~REDIS_AVAILABLE \/ fails THEN {}
    ELSE IF config_file # <<>>
    THEN {get_redis_key(config_file[1])} \cap DOMAIN rc
    ELSE KeysMatching(rc)

\* What clear_cached_config(config_file) returns.
ClearedReturns(rc, config_file, fails) ==
    IF ~REDIS_AVAILABLE \/ fails THEN FALSE
    ELSE IF config_file # <<>>
    THEN Cardinality(ClearedKeys(rc, config_file, fails)) > 0
    ELSE IF KeysMatching(rc) # {}
    THEN Cardinality(ClearedKeys(rc, config_file, fails)) > 0
    ELSE TRUE

-----------------------------------------------------------------------------
(* core/config.py: load_config and reload_config, 140-245 and 381-398 *)

\* f"http://localhost:{env_config.get('PORT', 8002)}"
BaseUrl ==
    IF "PORT" \in DOMAIN env /\ env["PORT"] = "60"
    THEN "http://localhost:60" ELSE "http://localhost:8002"

DefaultCompany ==
    IF "CONFIG_DEFAULT_COMPANY" \in DOMAIN env
    THEN env["CONFIG_DEFAULT_COMPANY"] ELSE "Ally Platform"

create_minimal_default_config ==
    [branding |-> [companyName |-> StrVal(DefaultCompany),
                   logoUrl |-> StrVal("/logo.png"),
                   primaryColor |-> StrVal("#007bff"),
                   secondaryColor |-> StrVal("#6c757d")],
     features |-> [chatEnabled |-> BoolVal(TRUE),
                   notificationsEnabled |-> BoolVal(TRUE),
                   analyticsEnabled |-> BoolVal(is_production),
                   darkModeEnabled |-> BoolVal(TRUE)],
     ui |-> [theme |-> StrVal("light"), language |-> StrVal("en"),
             timezone |-> StrVal("UTC")],
     api |-> [timeout |-> IntVal("30"), retryCount |-> IntVal("3"),
              baseUrl |-> StrVal(BaseUrl)],
     company |-> [name |-> StrVal(DefaultCompany),
                  contactEmail |-> StrVal("support@allyplatform.com"),
                  supportUrl |-> StrVal("https://support.allyplatform.com")]]

\* What a file of config/ holds: nothing (no such file), text that is not
\* JSON, or a JSON document.
Missing == [kind |-> "missing", data |-> <<>>]

Invalid == [kind |-> "invalid", data |-> <<>>]

Json(doc) == [kind |-> "json", data |-> doc]

\* load_config(), load_config("client-config.json"),
\* load_config("default-config.json"): lru_cache keeps one entry per
\* argument tuple.
LoadArgs == {<<>>, <<"client-config.json">>, <<"default-config.json">>}

\* config_file: str = "client-config.json"
ConfigFileOf(args) == IF args = <<>> THEN "client-config.json" ELSE args[1]

FileNames == {ConfigFileOf(args) : args \in LoadArgs}

\* The Redis calls of load_config that raise: none.
NoLoadFault == [cache_get |-> FALSE, cache_set |-> FALSE]

\* The body of load_config(config_file) on the Redis content rc: what it
\* returns or raises, the branch taken, and Redis afterwards.
LoadBody(rc, config_file, f) ==
    LET cached_config == get_cached_config(rc, config_file, f.cache_get)
        named == files[config_file]
        default == files["default-config.json"]
    IN  IF cached_config # <<>> /\ Truthy(cached_config[1])
        THEN [res |-> Returned(apply_environment_overrides(cached_config[1])),
              source |-> "redis", cache |-> rc]
        ELSE IF named.kind = "json"
        THEN [res |-> Returned(apply_environment_overrides(named.data)),
              source |-> "file",
              cache |-> set_cached_config(rc, config_file,
                                          AfterOverrides(named.data),
                                          f.cache_set)]
        ELSE IF named.kind = "invalid"
        THEN [res |-> Raised("JSONDecodeError"), source |-> "file",
              cache |-> rc]
        ELSE IF default.kind = "json"
        THEN [res |-> Returned(apply_environment_overrides(default.data)),
              source |-> "default_file",
              cache |-> set_cached_config(rc, config_file,
                                          AfterOverrides(default.data),
                                          f.cache_set)]
        ELSE IF default.kind = "invalid"
        THEN [res |-> Raised("JSONDecodeError"), source |-> "default_file",
              cache |-> rc]
        ELSE [res |-> Returned(apply_environment_overrides(
                                   create_minimal_default_config)),
              source |-> "minimal", cache |-> rc]

\* load_config(*args) under lru_cache with the entries mm: a hit returns
\* the entry, a miss runs the body and keeps what it returned.
Loaded(rc, mm, args, f) ==
    IF args \in DOMAIN mm
    THEN [res |-> Returned(mm[args]), source |-> "memory", cache |-> rc,
          memo |-> mm]
    ELSE LET r == LoadBody(rc, ConfigFileOf(args), f)
         IN  [res |-> r.res, source |-> r.source, cache |-> r.cache,
              memo |-> IF r.res.ok
                       THEN [a \in DOMAIN mm \cup {args} |->
                                IF a = args THEN r.res.value ELSE mm[a]]
                       ELSE mm]

\* A completed call of core/config.py; twice: the call before it was the
\* same call.
FileDone(op, args, res, source) ==
    [op |-> op, args |-> args, res |-> res, source |-> source,
     twice |-> flast.op = op /\ flast.args = args]

FileUnchanged ==
    UNCHANGED <<db, last, deleted, clock, default_config, pc, call,
                lastCommit, vdoc, vres, sres, chat_vars>>

load_config(args, f) ==
    LET r == Loaded(cache, memo, args, f)
    IN  /\ cache' = r.cache
        /\ memo' = r.memo
        /\ flast' = FileDone("load", args, r.res, r.source)
        /\ UNCHANGED <<files, env, REDIS_AVAILABLE>>
        /\ FileUnchanged

\* clear_cached_config(config_file), config_file <<>> for None
clear_cached_config(config_file) ==
    /\ cache' = Without(cache, ClearedKeys(cache, config_file, FALSE))
    /\ flast' = FileDone("clear", config_file,
                         Returned(ClearedReturns(cache, config_file, FALSE)),
                         "")
    /\ UNCHANGED <<files, memo, env, REDIS_AVAILABLE>>
    /\ FileUnchanged

\* reload_config(*args): cache_clear(), clear_cached_config(config_file),
\* load_config(config_file)
reload_config(args, f) ==
    LET config_file == ConfigFileOf(args)
        cleared == Without(cache,
                           ClearedKeys(cache, <<config_file>>, FALSE))
        r == Loaded(cleared, <<>>, <<config_file>>, f)
    IN  /\ cache' = r.cache
        /\ memo' = r.memo
        /\ flast' = FileDone("reload", args, r.res, r.source)
        /\ UNCHANGED <<files, env, REDIS_AVAILABLE>>
        /\ FileUnchanged

\* POST /clear-cache, api/v1/config/route_config.py 252-291
clear_configuration_cache ==
    LET redis_cleared ==
            IF REDIS_AVAILABLE
            THEN ClearedReturns(cache, <<"client-config.json">>, FALSE)
            ELSE FALSE
    IN  /\ cache' = IF REDIS_AVAILABLE
                    THEN Without(cache,
                                 ClearedKeys(cache, <<"client-config.json">>,
                                             FALSE))
                    ELSE cache
        /\ memo' = <<>>
        /\ flast' = FileDone("clear_route", <<"client-config.json">>,
                             Returned(redis_cleared), "success")
        /\ UNCHANGED <<files, env, REDIS_AVAILABLE>>
        /\ FileUnchanged

\* Redis drops the entry of a file when its REDIS_TTL has run out.
ExpireFile(config_file) ==
    /\ get_redis_key(config_file) \in DOMAIN cache
    /\ cache' = Without(cache, {get_redis_key(config_file)})
    /\ UNCHANGED <<files, memo, flast, env, REDIS_AVAILABLE>>
    /\ FileUnchanged

-----------------------------------------------------------------------------
(* The manager as the requests of one worker drive it, every Redis and     *)
(* database call succeeding.                                               *)

NotRun == [ok |-> FALSE, code |-> "NOT_RUN", message |-> "", value |-> FALSE]

Started == Done("start", "", <<>>, NotRun, "", <<>>)

FileStarted ==
    [op |-> "start", args |-> <<>>, res |-> NotRun, source |-> "",
     twice |-> FALSE]

\* No file in config/, nothing loaded, no variable set, Redis answering.
InitFiles ==
    /\ files = [n \in FileNames |-> Missing]
    /\ memo = <<>>
    /\ flast = FileStarted
    /\ env = <<>>
    /\ REDIS_AVAILABLE = TRUE

\* ChatService.create_chat_session has added the chat session: the
\* counters have their column defaults, no message is stored.
InitChat ==
    /\ chat_session = [message_count |-> 0, total_tokens_used |-> 0,
                       last_message_at |-> 0]
    /\ messages = <<>>
    /\ mpc = Idle
    /\ mcall = NoCall

Init ==
    /\ InitChat
    /\ InitFiles
    /\ db = {}
    /\ cache = <<>>
    /\ last = Started
    /\ deleted = {}
    /\ clock = 0
    /\ default_config \in DefaultConfigs
    /\ pc = Idle
    /\ call = NoCall
    /\ lastCommit = <<>>
    /\ vdoc = <<>>
    /\ vres = NotRun
    /\ sres = "unset"

Next ==
    \/ \E c \in Clients : get_configuration(c, NoFault)
    \/ \E c \in Clients, d \in SaveDocs : save_configuration(c, d, NoFault)
    \/ \E c \in Clients : delete_configuration(c, NoFault)
    \/ list_configurations(NoFault)
    \/ \E c \in Clients, n \in FeatureNames : get_feature_flag(c, n, NoFault)
    \/ \E c \in Clients : Expire(c)

Spec == Init /\ [][Next]_vars

-----------------------------------------------------------------------------
(* The same requests, any Redis or database call of a request failing.     *)

\* The calls a read makes, and the calls a write makes.
ReadFaults == {f \in Faults : ~f.cache_delete /\ ~f.db_commit}

WriteFaults == {f \in Faults : ~f.cache_get /\ ~f.cache_set}

QueryFaults == {f \in ReadFaults : ~f.cache_get /\ ~f.cache_set}

FaultClients == {"acme"}

NextFault ==
    \/ \E c \in FaultClients, f \in ReadFaults : get_configuration(c, f)
    \/ \E c \in FaultClients, d \in SaveDocs, f \in WriteFaults :
           save_configuration(c, d, f)
    \/ \E c \in FaultClients, f \in WriteFaults : delete_configuration(c, f)
    \/ \E f \in QueryFaults : list_configurations(f)
    \/ \E c \in FaultClients, n \in FeatureNames, f \in ReadFaults :
           get_feature_flag(c, n, f)
    \/ \E c \in FaultClients : Expire(c)

SpecFault == Init /\ [][NextFault]_vars

-----------------------------------------------------------------------------
(* Validation alone, on every document of AllDocs.                         *)

Validate ==
    /\ vres' = validate_configuration(vdoc)
    /\ UNCHANGED <<db, cache, last, deleted, clock, default_config, aside, pc,
                   call,
                   lastCommit, vdoc, sres>>

CheckStructure ==
    /\ sres' = IF validate_config_structure(vdoc) THEN "True" ELSE "False"
    /\ UNCHANGED <<db, cache, last, deleted, clock, default_config, aside, pc,
                   call,
                   lastCommit, vdoc, vres>>

InitValidation ==
    /\ InitChat
    /\ InitFiles
    /\ db = {}
    /\ cache = <<>>
    /\ last = Started
    /\ deleted = {}
    /\ clock = 0
    /\ default_config = <<>>
    /\ pc = Idle
    /\ call = NoCall
    /\ lastCommit = <<>>
    /\ vdoc \in AllDocs
    /\ vres = NotRun
    /\ sres = "unset"

NextValidation == Validate \/ CheckStructure

SpecValidation == InitValidation /\ [][NextValidation]_vars

-----------------------------------------------------------------------------
(* Two workers (uvicorn runs four), each call a sequence of steps: a Redis *)
(* call, a query, a commit.  A session flushes its changes at commit.      *)

Workers == {1, 2}

ConcClients == {"acme"}

ConcDocs == {DocA, DocB, DocBadLang}

Call(op, client_id, arg) ==
    [op |-> op, client |-> client_id, arg |-> arg, config |-> <<>>,
     existing |-> <<>>, now |-> 0, res |-> NotRun]

ConcUnchanged ==
    UNCHANGED <<last, deleted, default_config, aside, vdoc, vres, sres>>

\* save_configuration up to its query: validation and the time stamp.
SaveBegin(p, client_id, config) ==
    /\ pc[p] = "idle"
    /\ clock < MaxTime
    /\ IF ~validate_configuration(config).ok
       THEN /\ pc' = [pc EXCEPT ![p] = "done"]
            /\ call' = [call EXCEPT ![p] =
                   [Call("save", client_id, config) EXCEPT
                       !.res = validate_configuration(config)]]
            /\ UNCHANGED clock
       ELSE /\ pc' = [pc EXCEPT ![p] = "save_query"]
            /\ clock' = clock + 1
            /\ call' = [call EXCEPT ![p] =
                   [Call("save", client_id, config) EXCEPT
                       !.config = Stamp(config, clock + 1),
                       !.now = clock + 1]]
    /\ UNCHANGED <<db, cache, lastCommit>>
    /\ ConcUnchanged

\* The query for the existing row.
SaveQuery(p) ==
    /\ pc[p] = "save_query"
    /\ pc' = [pc EXCEPT ![p] = "save_commit"]
    /\ call' = [call EXCEPT ![p].existing = First(RowsOf(call[p].client))]
    /\ UNCHANGED <<db, cache, clock, lastCommit>>
    /\ ConcUnchanged

\* The update or the add, and db.commit(); an IntegrityError is rolled back
\* and raised as SAVE_ERROR.
SaveCommit(p) ==
    LET c == call[p]
        new == IF c.existing # <<>>
               THEN UpdatedRow(c.existing[1], c.config, c.now)
               ELSE NewRow(c.client, c.config, c.now)
    IN  /\ pc[p] = "save_commit"
        /\ IF DuplicateKey(c.existing, new)
           THEN /\ pc' = [pc EXCEPT ![p] = "done"]
                /\ call' = [call EXCEPT ![p].res = SaveError]
                /\ UNCHANGED <<db, lastCommit>>
           ELSE /\ pc' = [pc EXCEPT ![p] = "save_invalidate"]
                /\ db' = Committed(c.existing, new)
                /\ lastCommit' = <<[worker |-> p, config |-> c.config]>>
                /\ UNCHANGED call
        /\ UNCHANGED <<cache, clock>>
        /\ ConcUnchanged

SaveInvalidate(p) ==
    /\ pc[p] = "save_invalidate"
    /\ pc' = [pc EXCEPT ![p] = "done"]
    /\ cache' = _invalidate_cache(call[p].client, FALSE)
    /\ call' = [call EXCEPT ![p].res = Returned(TRUE)]
    /\ UNCHANGED <<db, clock, lastCommit>>
    /\ ConcUnchanged

\* get_configuration: the cache lookup.
GetCache(p, client_id) ==
    LET cached == _get_from_cache(client_id, FALSE)
    IN  /\ pc[p] = "idle"
        /\ IF cached # <<>> /\ Truthy(cached[1])
           THEN /\ pc' = [pc EXCEPT ![p] = "done"]
                /\ call' = [call EXCEPT ![p] =
                       [Call("get", client_id, <<>>) EXCEPT
                           !.res = Returned(cached[1])]]
           ELSE /\ pc' = [pc EXCEPT ![p] = "get_query"]
                /\ call' = [call EXCEPT ![p] = Call("get", client_id, <<>>)]
        /\ UNCHANGED <<db, cache, clock, lastCommit>>
        /\ ConcUnchanged

\* The query for the active row; the default when there is none.
GetQuery(p) ==
    LET db_config == First(ActiveRowsOf(call[p].client))
    IN  /\ pc[p] = "get_query"
        /\ IF db_config # <<>>
           THEN /\ pc' = [pc EXCEPT ![p] = "get_set"]
                /\ call' = [call EXCEPT ![p].config =
                                json_loads(db_config[1].config_data)]
           ELSE /\ pc' = [pc EXCEPT ![p] = "done"]
                /\ call' = [call EXCEPT ![p].res = Returned(default_config)]
        /\ UNCHANGED <<db, cache, clock, lastCommit>>
        /\ ConcUnchanged

GetSetCache(p) ==
    /\ pc[p] = "get_set"
    /\ pc' = [pc EXCEPT ![p] = "done"]
    /\ cache' = _set_cache(call[p].client, call[p].config, FALSE)
    /\ call' = [call EXCEPT ![p].res = Returned(call[p].config)]
    /\ UNCHANGED <<db, clock, lastCommit>>
    /\ ConcUnchanged

\* delete_configuration: the query; False when there is no row.
DeleteQuery(p, client_id) ==
    LET config == First(RowsOf(client_id))
    IN  /\ pc[p] = "idle"
        /\ clock < MaxTime
        /\ IF config # <<>>
           THEN /\ pc' = [pc EXCEPT ![p] = "delete_commit"]
                /\ clock' = clock + 1
                /\ call' = [call EXCEPT ![p] =
                       [Call("delete", client_id, <<>>) EXCEPT
                           !.existing = config, !.now = clock + 1]]
           ELSE /\ pc' = [pc EXCEPT ![p] = "done"]
                /\ call' = [call EXCEPT ![p] =
                       [Call("delete", client_id, <<>>) EXCEPT
                           !.res = Returned(FALSE)]]
                /\ UNCHANGED clock
        /\ UNCHANGED <<db, cache, lastCommit>>
        /\ ConcUnchanged

DeleteCommit(p) ==
    /\ pc[p] = "delete_commit"
    /\ pc' = [pc EXCEPT ![p] = "delete_invalidate"]
    /\ db' = Committed(call[p].existing,
                       DeactivatedRow(call[p].existing[1], call[p].now))
    /\ UNCHANGED <<cache, clock, call, lastCommit>>
    /\ ConcUnchanged

DeleteInvalidate(p) ==
    /\ pc[p] = "delete_invalidate"
    /\ pc' = [pc EXCEPT ![p] = "done"]
    /\ cache' = _invalidate_cache(call[p].client, FALSE)
    /\ call' = [call EXCEPT ![p].res = Returned(TRUE)]
    /\ UNCHANGED <<db, clock, lastCommit>>
    /\ ConcUnchanged

\* The call returns or raises; the worker takes its next request.
Return(p) ==
    /\ pc[p] = "done"
    /\ pc' = [pc EXCEPT ![p] = "idle"]
    /\ call' = [call EXCEPT ![p] = <<>>]
    /\ UNCHANGED <<db, cache, clock, lastCommit>>
    /\ ConcUnchanged

InitConc == Init /\ default_config # <<>>

NextConc ==
    \E p \in Workers :
        \/ \E c \in ConcClients, d \in ConcDocs : SaveBegin(p, c, d)
        \/ SaveQuery(p)
        \/ SaveCommit(p)
        \/ SaveInvalidate(p)
        \/ \E c \in ConcClients : GetCache(p, c)
        \/ GetQuery(p)
        \/ GetSetCache(p)
        \/ \E c \in ConcClients : DeleteQuery(p, c)
        \/ DeleteCommit(p)
        \/ DeleteInvalidate(p)
        \/ Return(p)

SpecConc == InitConc /\ [][NextConc]_vars

-----------------------------------------------------------------------------
(* The loader of core/config.py: the files of config/, the variables of    *)
(* the environment and whether Redis answered at import are fixed when the *)
(* process starts.                                                         *)

FileDocClient ==
    [meta |-> [version |-> StrVal("1.0.0")],
     branding |-> [companyName |-> StrVal("Ally"),
                   primaryColor |-> StrVal("#007bff")],
     features |-> [chatEnabled |-> BoolVal(TRUE),
                   analyticsEnabled |-> BoolVal(TRUE)]]

\* No features section, an empty company name.
FileDocDefault ==
    [branding |-> [companyName |-> StrVal("")],
     ui |-> [theme |-> StrVal("light")]]

\* <<>> is the file "{}".
FileDocs == {FileDocClient, FileDocDefault, <<>>}

FileContents == {Missing, Invalid} \cup {Json(doc) : doc \in FileDocs}

Environments ==
    {<<>>,
     [CONFIG_BRANDING_COMPANY_NAME |-> "Env Co",
      CONFIG_FEATURES_CHAT_ENABLED |-> "false"],
     [ENVIRONMENT |-> "Production", CONFIG_API_TIMEOUT |-> "60",
      CONFIG_DEFAULT_COMPANY |-> "Fallback Co"],
     [PROD |-> "", ENABLE_ANALYTICS |-> "off", CONFIG_UI_THEME |-> "1.5",
      CONFIG_BRANDING_PRIMARY_COLOR |-> "TRUE"]}

ClearArgs == {<<>>} \cup {<<n>> : n \in FileNames}

InitLoader ==
    /\ InitChat
    /\ db = {}
    /\ cache = <<>>
    /\ last = Started
    /\ deleted = {}
    /\ clock = 0
    /\ default_config = <<>>
    /\ pc = Idle
    /\ call = NoCall
    /\ lastCommit = <<>>
    /\ vdoc = <<>>
    /\ vres = NotRun
    /\ sres = "unset"
    /\ files \in [FileNames -> FileContents]
    /\ memo = <<>>
    /\ flast = FileStarted
    /\ env \in Environments
    /\ REDIS_AVAILABLE \in BOOLEAN

NextLoader ==
    \/ \E args \in LoadArgs : load_config(args, NoLoadFault)
    \/ \E config_file \in ClearArgs : clear_cached_config(config_file)
    \/ \E args \in LoadArgs : reload_config(args, NoLoadFault)
    \/ clear_configuration_cache
    \/ \E n \in FileNames : ExpireFile(n)

SpecLoader == InitLoader /\ [][NextLoader]_vars

-----------------------------------------------------------------------------
(* apply_environment_overrides alone, as get_config_value (core/config.py  *)
(* 358) calls it, on every document of FileDocs under every environment of *)
(* OverrideEnvs.                                                           *)

OverrideVars ==
    {"CONFIG_FEATURES_ANALYTICS_ENABLED", "CONFIG_BRANDING_COMPANY_NAME",
     "CONFIG_API_TIMEOUT", "ENABLE_ANALYTICS", "CONFIG_DEFAULT_COMPANY"}

OverrideValues == {"TRUE", "60", "Env Co", ""}

\* Every subset of OverrideVars set, each variable to any of OverrideValues.
OverrideEnvs == UNION {[S -> OverrideValues] : S \in SUBSET OverrideVars}

ApplyOverrides(n) ==
    /\ files[n].kind = "json"
    /\ flast' = FileDone("apply", <<n>>,
                         Returned(apply_environment_overrides(files[n].data)),
                         "")
    /\ UNCHANGED <<cache, files, memo, env, REDIS_AVAILABLE>>
    /\ FileUnchanged

InitOverrides ==
    /\ InitChat
    /\ db = {}
    /\ cache = <<>>
    /\ last = Started
    /\ deleted = {}
    /\ clock = 0
    /\ default_config = <<>>
    /\ pc = Idle
    /\ call = NoCall
    /\ lastCommit = <<>>
    /\ vdoc = <<>>
    /\ vres = NotRun
    /\ sres = "unset"
    /\ files \in [FileNames -> {Json(doc) : doc \in FileDocs}]
    /\ memo = <<>>
    /\ flast = FileStarted
    /\ env \in OverrideEnvs
    /\ REDIS_AVAILABLE = TRUE

NextOverrides == \E n \in FileNames : ApplyOverrides(n)

SpecOverrides == InitOverrides /\ [][NextOverrides]_vars

-----------------------------------------------------------------------------
(* The routes of api/v1/config/route_config.py over load_config, while the *)
(* files of config/ are edited on disk and Redis drops expired entries.    *)

\* A file of config/ is edited, created or removed on disk.
WriteFile(n, content) ==
    /\ files[n] # content
    /\ files' = [files EXCEPT ![n] = content]
    /\ UNCHANGED <<cache, memo, flast, env, REDIS_AVAILABLE>>
    /\ FileUnchanged

\* raise HTTPException(status_code=...)
HTTPException(status_code) ==
    [ok |-> FALSE, code |-> status_code, message |-> "", value |-> FALSE]

\* f"CONFIG_{key_path.upper().replace('.', '_')}" of features.<name>
FeatureEnvVar ==
    [chatEnabled |-> "CONFIG_FEATURES_CHATENABLED",
     nonexistent |-> "CONFIG_FEATURES_NONEXISTENT"]

RouteFeatureNames == DOMAIN FeatureEnvVar

RouteSections == {"meta", "nonexistent"}

\* is_feature_enabled(feature_name) on the loaded config_data:
\* get_config_value(f"features.{feature_name}", False)
is_feature_enabled(config_data, feature_name) ==
    LET config == apply_environment_overrides(config_data)
        env_value == EnvGet(FeatureEnvVar[feature_name])
    IN  IF feature_name \in DOMAIN GetSection(config, "features")
        THEN config.features[feature_name]
        ELSE IF env_value # <<>> THEN StrVal(env_value[1])
        ELSE BoolVal(FALSE)

\* The memory cache once get_config_value has applied the overrides to
\* the object load_config() returned, which is the object lru_cache holds.
Touched(mm) ==
    [a \in DOMAIN mm |-> IF a = <<>> THEN AfterOverrides(mm[a]) ELSE mm[a]]

\* The end of a route: Redis and the memory cache as the loads of the
\* route left them, and the response.
Answered(op, args, r) ==
    /\ cache' = r.cache
    /\ memo' = r.memo
    /\ flast' = FileDone(op, args, r.res, r.source)
    /\ UNCHANGED <<files, env, REDIS_AVAILABLE>>
    /\ FileUnchanged

\* Lines 130-136, r the load_config() of is_feature_enabled.
FeatureFlagResponse(r, feature_name) ==
    [res |-> IF r.res.ok
             THEN Returned([feature |-> feature_name,
                            enabled |-> is_feature_enabled(r.res.value,
                                                           feature_name)])
             ELSE HTTPException("500"),
     source |-> r.source, cache |-> r.cache, memo |-> Touched(r.memo)]

\* GET /feature/{feature_name}
get_feature_flag_route(feature_name) ==
    Answered("feature", <<feature_name>>,
             FeatureFlagResponse(Loaded(cache, memo, <<>>, NoLoadFault),
                                 feature_name))

\* Lines 306-321, r the load_config() of the route.
SectionResponse(r, section) ==
    [res |-> IF ~r.res.ok THEN HTTPException("500")
             ELSE IF section \notin DOMAIN r.res.value
             THEN HTTPException("404")
             ELSE Returned(r.res.value[section]),
     source |-> r.source, cache |-> r.cache, memo |-> r.memo]

\* GET /{section}
get_config_section(section) ==
    Answered("section", <<section>>,
             SectionResponse(Loaded(cache, memo, <<>>, NoLoadFault), section))

\* Lines 207-209, fresh the load of reload_config():
\* set_cached_config("client-config.json", fresh_config)
Refreshed(fresh) ==
    IF ~fresh.res.ok
    THEN [res |-> HTTPException("500"), source |-> fresh.source,
          cache |-> fresh.cache, memo |-> fresh.memo]
    ELSE [res |-> Returned(fresh.res.value), source |-> fresh.source,
          cache |-> set_cached_config(fresh.cache, "client-config.json",
                                      fresh.res.value, FALSE),
          memo |-> fresh.memo]

\* Lines 199-204, current the load_config() of line 200: reload_config()
\* clears the memory cache and the Redis entry and loads the file.
Reloaded(current) ==
    IF ~current.res.ok
    THEN [res |-> HTTPException("500"), source |-> current.source,
          cache |-> current.cache, memo |-> current.memo]
    ELSE Refreshed(Loaded(Without(current.cache,
                                  ClearedKeys(current.cache,
                                              <<"client-config.json">>,
                                              FALSE)),
                          <<>>, <<"client-config.json">>, NoLoadFault))

\* POST /reload
reload_configuration ==
    Answered("reload_route", <<>>,
             Reloaded(Loaded(cache, memo, <<>>, NoLoadFault)))

RouteContents == {Missing, Invalid, Json(FileDocClient), Json(FileDocDefault)}

RouteEnvironments ==
    {<<>>,
     [CONFIG_BRANDING_COMPANY_NAME |-> "Env Co",
      CONFIG_FEATURES_NONEXISTENT |-> "TRUE"]}

RouteArgs == {<<>>, <<"client-config.json">>}

InitRoutes ==
    /\ InitChat
    /\ db = {}
    /\ cache = <<>>
    /\ last = Started
    /\ deleted = {}
    /\ clock = 0
    /\ default_config = <<>>
    /\ pc = Idle
    /\ call = NoCall
    /\ lastCommit = <<>>
    /\ vdoc = <<>>
    /\ vres = NotRun
    /\ sres = "unset"
    /\ files \in [FileNames -> {Missing, Json(FileDocClient)}]
    /\ memo = <<>>
    /\ flast = FileStarted
    /\ env \in RouteEnvironments
    /\ REDIS_AVAILABLE \in BOOLEAN

NextRoutes ==
    \/ \E args \in RouteArgs : load_config(args, NoLoadFault)
    \/ \E args \in RouteArgs : reload_config(args, NoLoadFault)
    \/ \E feature_name \in RouteFeatureNames :
           get_feature_flag_route(feature_name)
    \/ \E section \in RouteSections : get_config_section(section)
    \/ reload_configuration
    \/ clear_configuration_cache
    \/ \E content \in RouteContents : WriteFile("client-config.json", content)
    \/ ExpireFile("client-config.json")

SpecRoutes == InitRoutes /\ [][NextRoutes]_vars

-----------------------------------------------------------------------------

(* config_api.py: the endpoints of /api/config over the Configuration      *)
(* Manager, one request at a time, every Redis and database call           *)
(* succeeding.                                                             *)

\* The bearer tokens of the requests.
Tokens == {"acme", "demo"}

\* verify_token: the token as it was sent
verify_token(credentials) == credentials

get_client_id_from_token_Alt(token) == token

\* get_client_id_from_token: "ally-demo" whatever the token
get_client_id_from_token(token) == "ally-demo"

WithClientId_Alt(config, client_id) == config

\* Lines 212-213: request.config["meta"]["clientId"] = client_id
WithClientId(config, client_id) ==
    [config EXCEPT !.meta =
        [k \in DOMAIN config.meta \cup {"clientId"} |->
            IF k = "clientId" THEN client_id ELSE config.meta[k]]]

\* d.get(k): <<>> is None
GetOrNone(d, k) == IF k \in DOMAIN d THEN <<d[k]>> ELSE <<>>

\* d.get(k, False)
GetOrFalse(d, k) == IF k \in DOMAIN d THEN d[k] ELSE FALSE

public_config_Alt(full_config) ==
    [meta |-> [version |-> GetOrNone(GetSection(full_config, "meta"), "version"),
               clientId |->
                   GetOrNone(GetSection(full_config, "meta"), "clientId"),
               configName |->
                   GetOrNone(GetSection(full_config, "meta"), "configName")],
     branding |-> GetSection(full_config, "branding"),
     features |-> GetSection(full_config, "features"),
     ui |-> GetSection(full_config, "ui"),
     languages |-> GetSection(full_config, "languages"),
     analytics |-> GetSection(full_config, "analytics")]

\* Lines 169-184: the filter of the public endpoint.
public_config(full_config) ==
    [meta |-> [version |-> GetOrNone(GetSection(full_config, "meta"), "version"),
               clientId |->
                   GetOrNone(GetSection(full_config, "meta"), "clientId"),
               configName |->
                   GetOrNone(GetSection(full_config, "meta"), "configName")],
     branding |-> GetSection(full_config, "branding"),
     features |-> GetSection(full_config, "features"),
     ui |-> GetSection(full_config, "ui"),
     languages |-> GetSection(full_config, "languages"),
     analytics |->
         [enabled |->
              GetOrFalse(GetSection(full_config, "analytics"), "enabled"),
          customEvents |->
              GetOrFalse(GetSection(full_config, "analytics"), "customEvents")]]

ApiUnchanged ==
    UNCHANGED <<default_config, aside, pc, call, lastCommit, vdoc, vres, sres>>

\* GET /: get_client_configuration
get_client_configuration(credentials) ==
    LET client_id == get_client_id_from_token(verify_token(credentials))
        r == GetResult(client_id, NoFault)
    IN  /\ cache' = r.cache
        /\ last' = Done("GET /", client_id, [token |-> credentials],
                        IF r.res.ok THEN r.res ELSE HTTPException("400"),
                        r.source, <<>>)
        /\ UNCHANGED <<db, deleted, clock>>
        /\ ApiUnchanged

\* The public response that completed just before this request, if one
\* did.
JustServed ==
    IF last.op = "GET /public" /\ last.res.ok
    THEN <<[client |-> last.client, data |-> last.res.value]>>
    ELSE <<>>

\* GET /public/{client_id}: get_public_configuration, no token
get_public_configuration(client_id) ==
    LET r == GetResult(client_id, NoFault)
    IN  /\ cache' = r.cache
        /\ last' = Done("GET /public", client_id, <<>>,
                        IF r.res.ok THEN Returned(public_config(r.res.value))
                        ELSE HTTPException("404"),
                        r.source, JustServed)
        /\ UNCHANGED <<db, deleted, clock>>
        /\ ApiUnchanged

\* PUT /: update_client_configuration.  The save commits, then
\* get_configuration misses the cache the save invalidated and reads the
\* table.
update_client_configuration(credentials, config, validate_only) ==
    LET client_id == get_client_id_from_token(verify_token(credentials))
        arg == [token |-> credentials, config |-> config,
                validate_only |-> validate_only]
        request_config == WithClientId(config, client_id)
        now == clock + 1
        stamped == Stamp(request_config, now)
        existing_config == First(RowsOf(client_id))
        new == IF existing_config # <<>>
               THEN UpdatedRow(existing_config[1], stamped, now)
               ELSE NewRow(client_id, stamped, now)
        table == Committed(existing_config, new)
        invalidated == _invalidate_cache(client_id, FALSE)
        db_config == First({r \in table : r.client_id = client_id
                                            /\ r.is_active})
    IN  /\ clock < MaxTime
        /\ IF "meta" \notin DOMAIN config
           THEN /\ last' = Done("PUT /", client_id, arg, HTTPException("500"),
                                "", <<>>)
                /\ UNCHANGED <<db, cache, deleted, clock>>
           ELSE IF ~validate_configuration(request_config).ok
           THEN /\ last' = Done("PUT /", client_id, arg, HTTPException("400"),
                                "", <<>>)
                /\ UNCHANGED <<db, cache, deleted, clock>>
           ELSE IF validate_only
           THEN /\ last' = Done("PUT /", client_id, arg,
                                Returned(request_config), "", <<>>)
                /\ UNCHANGED <<db, cache, deleted, clock>>
           ELSE /\ db' = table
                /\ clock' = now
                /\ deleted' = deleted \ {client_id}
                /\ cache' =
                       IF db_config = <<>> THEN invalidated
                       ELSE [k \in DOMAIN invalidated
                                     \cup {_get_cache_key(client_id)} |->
                                IF k = _get_cache_key(client_id)
                                THEN db_config[1].config_data
                                ELSE invalidated[k]]
                /\ last' = Done("PUT /", client_id, arg,
                                IF db_config = <<>>
                                THEN Returned(default_config)
                                ELSE Returned(json_loads(
                                                  db_config[1].config_data)),
                                IF db_config = <<>> THEN "default"
                                ELSE "database",
                                <<>>)
        /\ ApiUnchanged

\* DELETE /: delete_client_configuration.  The HTTPException 404 of a
\* delete that found no row is raised inside the try block and caught by
\* `except Exception`, which answers 500.
delete_client_configuration(credentials) ==
    LET client_id == get_client_id_from_token(verify_token(credentials))
        now == clock + 1
        config == First(RowsOf(client_id))
    IN  /\ clock < MaxTime
        /\ IF config # <<>>
           THEN /\ db' = Committed(config, DeactivatedRow(config[1], now))
                /\ cache' = _invalidate_cache(client_id, FALSE)
                /\ clock' = now
                /\ deleted' = deleted \cup {client_id}
                /\ last' = Done("DELETE /", client_id, [token |-> credentials],
                                Returned(TRUE), "", <<>>)
           ELSE /\ last' = Done("DELETE /", client_id, [token |-> credentials],
                                HTTPException("500"), "", <<>>)
                /\ UNCHANGED <<db, cache, deleted, clock>>
        /\ ApiUnchanged

\* A document whose meta section is missing.
DocNoMeta == [k \in DOMAIN DocA \ {"meta"} |-> DocA[k]]

\* The documents of the PUT requests: meta.clientId is "acme" in DocA and
\* "demo" in DocB.
ApiDocs == {DocA, DocB, DocNoAI, DocNoMeta}

\* The client ids of GET /public/{client_id}.
PublicClients == {"ally-demo", "acme"}

NextApi ==
    \/ \E t \in Tokens : get_client_configuration(t)
    \/ \E c \in PublicClients : get_public_configuration(c)
    \/ \E t \in Tokens, d \in ApiDocs, v \in BOOLEAN :
           update_client_configuration(t, d, v)
    \/ \E t \in Tokens : delete_client_configuration(t)
    \/ \E c \in PublicClients : Expire(c)

SpecApi == Init /\ [][NextApi]_vars

-----------------------------------------------------------------------------

(* GET /public/{client_id} on a table that holds the row of "ally-demo",   *)
(* every other client answered from the default configuration.             *)

PublicMetaOpts ==
    {<<[version |-> "1.0.0", clientId |-> "ally-demo", lastUpdated |-> 0]>>,
     <<[version |-> "1.0.0", clientId |-> "ally-demo", lastUpdated |-> 1]>>,
     <<[version |-> "1.0.0", clientId |-> "ally-demo", lastUpdated |-> 0,
        configName |-> "Main"]>>}

PublicAnalyticsOpts ==
    {<<>>,
     <<[enabled |-> FALSE]>>,
     <<[enabled |-> TRUE, customEvents |-> TRUE, trackingId |-> "UA-1"]>>,
     <<[enabled |-> TRUE, customEvents |-> TRUE, trackingId |-> "UA-2"]>>}

\* Valid documents of the client "ally-demo".
PublicDocs ==
    {Dict(o) : o \in
        [meta : PublicMetaOpts,
         branding : {<<[companyName |-> "Ally", primaryColor |-> "#3B82F6"]>>},
         features : {<<[chatEnabled |-> TRUE, voiceEnabled |-> FALSE]>>},
         ui : {<<[layout |-> "modern"]>>},
         ai : {<<[model |-> "gpt-4o"]>>, <<[model |-> "claude-3-5-haiku"]>>},
         security : {<< <<>> >>, <<[rateLimit |-> 1000]>>},
         languages : {<<>>, <<[default |-> "en", supported |-> <<"en", "fr">>]>>},
         analytics : PublicAnalyticsOpts]}

InitPublic ==
    /\ InitChat
    /\ InitFiles
    /\ \E d \in PublicDocs : db = {NewRow("ally-demo", d, 0)}
    /\ cache = <<>>
    /\ last = Started
    /\ deleted = {}
    /\ clock = 0
    /\ default_config \in PublicDocs
    /\ pc = Idle
    /\ call = NoCall
    /\ lastCommit = <<>>
    /\ vdoc = <<>>
    /\ vres = NotRun
    /\ sres = "unset"

NextPublic ==
    \/ \E c \in PublicClients : get_public_configuration(c)
    \/ Expire("ally-demo")

SpecPublic == InitPublic /\ [][NextPublic]_vars

-----------------------------------------------------------------------------

(* ChatService.add_message, services/database_service.py 308-353, called   *)
(* by two workers on one chat session.  The session of a call reads the    *)
(* row of the chat session, the commit writes the columns it changed.      *)

TokenCounts == {0, 5}

ChatUnchanged ==
    UNCHANGED <<db, cache, last, deleted, default_config, pc, call,
                lastCommit, vdoc, vres, sres, file_vars>>

\* Lines 324-342: the message is pending, the row of the chat session is
\* read and its counters are set from what was read.
AddMessageQuery(p, ai_tokens_used) ==
    LET now == clock + 1
    IN  /\ mpc[p] = "idle"
        /\ clock < MaxTime
        /\ clock' = now
        /\ mpc' = [mpc EXCEPT ![p] = "commit"]
        /\ mcall' = [mcall EXCEPT ![p] =
               [ai_tokens_used |-> ai_tokens_used,
                loaded |-> chat_session,
                chat_session |->
                    [message_count |-> chat_session.message_count + 1,
                     total_tokens_used |->
                         chat_session.total_tokens_used + ai_tokens_used,
                     last_message_at |-> now],
                res |-> NotRun]]
        /\ UNCHANGED <<chat_session, messages>>
        /\ ChatUnchanged

\* The row after the UPDATE of the flush: SET of the columns whose value in
\* the session differs from the one it read.
FlushedSession(c) ==
    [k \in DOMAIN chat_session |->
        IF c.chat_session[k] # c.loaded[k] THEN c.chat_session[k]
        ELSE chat_session[k]]

\* Line 344: db.commit() inserts the message and updates the chat session.
AddMessageCommit(p) ==
    /\ mpc[p] = "commit"
    /\ messages' = Append(messages,
                          [ai_tokens_used |-> mcall[p].ai_tokens_used])
    /\ chat_session' = FlushedSession(mcall[p])
    /\ mpc' = [mpc EXCEPT ![p] = "done"]
    /\ mcall' = [mcall EXCEPT ![p].res = Returned(TRUE)]
    /\ UNCHANGED clock
    /\ ChatUnchanged

\* Lines 350-353: the commit raised, db.rollback(), raise.
AddMessageRollback(p) ==
    /\ mpc[p] = "commit"
    /\ mpc' = [mpc EXCEPT ![p] = "done"]
    /\ mcall' = [mcall EXCEPT ![p].res = Raised("Exception")]
    /\ UNCHANGED <<chat_session, messages, clock>>
    /\ ChatUnchanged

AddMessageReturn(p) ==
    /\ mpc[p] = "done"
    /\ mpc' = [mpc EXCEPT ![p] = "idle"]
    /\ mcall' = [mcall EXCEPT ![p] = <<>>]
    /\ UNCHANGED <<chat_session, messages, clock>>
    /\ ChatUnchanged

InitMessages == Init /\ default_config = <<>>

NextChat ==
    \E p \in Workers :
        \/ \E t \in TokenCounts : AddMessageQuery(p, t)
        \/ AddMessageCommit(p)
        \/ AddMessageRollback(p)
        \/ AddMessageReturn(p)

SpecChat == InitMessages /\ [][NextChat]_vars

-----------------------------------------------------------------------------
(* Properties *)

\* Two documents agree in every field except meta.lastUpdated.
EqExceptLastUpdated(a, b) ==
    /\ DOMAIN a = DOMAIN b
    /\ \A k \in DOMAIN a \ {"meta"} : a[k] = b[k]
    /\ "meta" \in DOMAIN a =>
           /\ DOMAIN a.meta = DOMAIN b.meta
           /\ \A k \in DOMAIN a.meta \ {"lastUpdated"} : a.meta[k] = b.meta[k]

\* C1: a get of client c that follows a successful save of document d for
\* c returns a document equal to d in every field except meta.lastUpdated,
\* whatever the row and the cache were before the save.
C1_SaveThenGetReturnsSaved ==
    (last.op = "get" /\ last.afterSave # <<>>) =>
        /\ last.res.ok
        /\ EqExceptLastUpdated(last.res.value, last.afterSave[1])

C5_GetResolutionOrder ==
    [][\A c \in Clients :
          (/\ last'.op = "get" /\ last'.client = c
           /\ get_configuration(c, NoFault)) =>
              LET key == _get_cache_key(c)
                  active == {r \in db : r.client_id = c /\ r.is_active}
              IN  IF key \in DOMAIN cache
                  THEN /\ last'.res.ok
                       /\ last'.res.value = json_loads(cache[key])
                       /\ last'.source = "cache"
                       /\ cache' = cache
                  ELSE IF active # {}
                  THEN /\ last'.res.ok
                       /\ \E r \in active :
                              /\ last'.res.value = json_loads(r.config_data)
                              /\ key \in DOMAIN cache'
                              /\ cache'[key] = r.config_data
                       /\ last'.source = "database"
                  ELSE /\ last'.res.ok
                       /\ last'.res.value = default_config
                       /\ cache' = cache]_vars

\* C5 witness: a get answered with the default for a client whose row is
\* inactive, after which nothing is cached for it.
C5_Witness ==
    /\ last.op = "get"
    /\ last.source = "default"
    /\ \E r \in db : r.client_id = last.client /\ ~r.is_active
    /\ _get_cache_key(last.client) \notin DOMAIN cache

\* C6: get_feature_flag(c, name) never raises; it returns features[name]
\* of the configuration get_configuration(c) resolves, and False when the
\* flag or the features section is absent or the retrieval raises.
C6_FeatureFlagNeverRaises ==
    [][\A c \in FaultClients, n \in FeatureNames, f \in ReadFaults :
          get_feature_flag(c, n, f) =>
              LET r == GetResult(c, f)
              IN  /\ last'.res.ok
                  /\ last'.res.value =
                        IF /\ r.res.ok
                           /\ "features" \in DOMAIN r.res.value
                           /\ n \in DOMAIN r.res.value.features
                        THEN r.res.value.features[n]
                        ELSE FALSE]_vars

\* C6 witness: a flag read whose retrieval raised, answered False, while an
\* active row holds the flag as True.
C6_Witness ==
    /\ last.op = "flag"
    /\ last.source = "error"
    /\ last.res.ok
    /\ last.res.value = FALSE
    /\ \E r \in db : /\ r.is_active
                      /\ r.client_id = last.client
                      /\ FlagOf(json_loads(r.config_data), last.arg)

\* languages.default is present and is not in languages.supported.
DefaultNotSupported(config) ==
    /\ "languages" \in DOMAIN config
    /\ "default" \in DOMAIN config.languages
    /\ \/ "supported" \notin DOMAIN config.languages
       \/ ~InList(config.languages.default, config.languages.supported)

\* C7: validate_configuration fails for every document whose
\* languages.default is present and not in languages.supported (an absent
\* supported list included), whatever the other fields are.
C7_DefaultLanguageMustBeSupported ==
    (vres.code # "NOT_RUN" /\ DefaultNotSupported(vdoc)) => ~vres.ok

SevenModels ==
    {"gemini-2.5-flash-lite", "gemini-2.5-flash", "gemini-2.0-flash-exp",
     "gpt-4o", "gpt-4o-mini", "claude-3-5-sonnet", "claude-3-5-haiku"}

HasModel(config) == "ai" \in DOMAIN config /\ "model" \in DOMAIN config.ai

\* The document validates once its ai.model is set to gpt-4o.
OtherwiseValid(config) ==
    /\ HasModel(config)
    /\ validate_configuration([config EXCEPT !.ai.model = "gpt-4o"]).ok

\* C9: validate_configuration fails for every document whose ai.model is
\* not one of the seven identifiers, and succeeds for every document whose
\* ai.model is one of them and that is valid otherwise.
C9_ModelEnumeration ==
    vres.code # "NOT_RUN" =>
        /\ (HasModel(vdoc) /\ vdoc.ai.model \notin SevenModels) => ~vres.ok
        /\ (OtherwiseValid(vdoc) /\ vdoc.ai.model \in SevenModels) => vres.ok

\* C9 witness: an otherwise valid document with the last identifier of the
\* list has been accepted.
C9_Witness ==
    /\ vres.ok
    /\ HasModel(vdoc)
    /\ vdoc.ai.model = "claude-3-5-haiku"
    /\ "languages" \in DOMAIN vdoc

\* The code raised for a structural (schema) validation failure.
StructuralCode == validate_configuration(DocNoAI).code

\* C10: a save of a structurally valid document whose languages.default is
\* outside languages.supported fails with a ConfigurationError whose code
\* differs from the code of a structural validation failure, and the rows
\* stay as they were.
C10_BusinessRuleCode ==
    [][\A c \in Clients, d \in SaveDocs :
          (/\ ClientConfigModel(d)
           /\ DefaultNotSupported(d)
           /\ save_configuration(c, d, NoFault))
              => /\ ~last'.res.ok
                 /\ last'.res.code # StructuralCode
                 /\ db' = db]_vars

\* C4: two saves of valid documents for one client, their steps interleaved
\* in any order, both succeed, and the persisted document is then the
\* document of the save that committed last.
C4_ConcurrentSavesLastCommitWins ==
    \A p \in Workers : \A q \in Workers \ {p} :
        (/\ pc[p] = "done" /\ pc[q] = "done"
         /\ call[p].op = "save" /\ call[q].op = "save"
         /\ call[p].client = call[q].client
         /\ validate_configuration(call[p].arg).ok
         /\ validate_configuration(call[q].arg).ok) =>
            /\ call[p].res.ok
            /\ call[q].res.ok
            /\ lastCommit # <<>>
            /\ \E r \in db :
                   /\ r.client_id = call[p].client
                   /\ r.config_data = json_dumps(lastCommit[1].config)

\* The client ids that have a row in the table t.
ClientIdsOf(t) == {r.client_id : r \in t}

\* C11: delete_configuration never removes a row: the client ids that have
\* a row are the same after any delete as before it, the rows of the other
\* clients are untouched, the row of the deleted client keeps its document
\* and version and is inactive; with no row the call returns False and
\* changes neither the table nor the cache.
C11_DeleteKeepsRows ==
    [][\A c \in Clients :
         delete_configuration(c, NoFault) =>
           /\ ClientIdsOf(db') = ClientIdsOf(db)
           /\ Cardinality(db') = Cardinality(db)
           /\ \A r \in db :
                \E n \in db' :
                  /\ n.client_id = r.client_id
                  /\ n.config_data = r.config_data
                  /\ n.version = r.version
                  /\ IF r.client_id = c THEN ~n.is_active ELSE n = r
           /\ c \notin ClientIdsOf(db) =>
                /\ last'.res = Returned(FALSE)
                /\ db' = db
                /\ cache' = cache]_vars

\* A delete returned True, the row is still there, inactive, next to the
\* active row of the other client.
C11_Witness ==
    /\ last.op = "delete"
    /\ last.res = Returned(TRUE)
    /\ \E r \in db : r.client_id = last.client /\ ~r.is_active
    /\ \E r \in db : r.client_id # last.client /\ r.is_active

\* C12: there is at most one row per client id after any sequence of saves
\* and deletes; the first successful save of a client adds its row, every
\* later successful save leaves the number of rows as it is and puts its
\* document and version into the client's row.
C12_OneRowPerClient ==
    [][/\ \A r1 \in db' : \A r2 \in db' : r1.client_id = r2.client_id => r1 = r2
       /\ \A c \in Clients : \A d \in SaveDocs :
            (/\ last'.op = "save" /\ last'.arg = d
             /\ save_configuration(c, d, NoFault)
             /\ last'.res.ok) =>
              /\ IF c \in ClientIdsOf(db)
                 THEN Cardinality(db') = Cardinality(db)
                 ELSE db' = db \cup {NewRow(c, Stamp(d, clock'), clock')}
              /\ \E n \in db' :
                   /\ n.client_id = c
                   /\ n.config_data = json_dumps(Stamp(d, clock'))
                   /\ n.version = d.meta.version]_vars

\* A second successful save of a client, with another document and another
\* version than the first, left one row.
C12_Witness ==
    /\ last.op = "save"
    /\ last.res.ok
    /\ last.arg = DocB
    /\ clock = 2
    /\ \E r \in db : /\ r.client_id = last.client
                     /\ r.version = DocB.meta.version
                     /\ r.updated_at = 2
    /\ Cardinality(db) = 1

\* C13: list_configurations returns one entry (clientId, version,
\* lastUpdated, meta) for each active row, none for an inactive row or for
\* a client without a row, and changes neither the table nor the cache.
C13_ListActiveRows ==
    [][list_configurations(NoFault) =>
         LET entries == last'.res.value
         IN  /\ last'.res.ok
             /\ \A c \in Clients :
                  LET active == {r \in db : r.client_id = c /\ r.is_active}
                      of_c == {e \in entries : e.clientId = c}
                  IN  IF active = {} THEN of_c = {}
                      ELSE /\ Cardinality(of_c) = 1
                           /\ \A e \in of_c : \A r \in active :
                                /\ e.version = r.version
                                /\ e.lastUpdated = r.updated_at
                                /\ e.meta = json_loads(r.config_data).meta
             /\ \A e \in entries : e.clientId \in Clients
             /\ db' = db
             /\ cache' = cache]_vars

\* A listing of one entry while the table holds an active and an inactive
\* row.
C13_Witness ==
    /\ last.op = "list"
    /\ last.res.ok
    /\ Cardinality(last.res.value) = 1
    /\ \E r \in db : r.is_active
    /\ \E r \in db : ~r.is_active

\* The document get_configuration reads from the table for c, the default
\* document when c has no active row.
StoredOrDefault(c) ==
    LET active == {r \in db : r.client_id = c /\ r.is_active}
    IN  IF active = {} THEN default_config
        ELSE json_loads((CHOOSE r \in active : TRUE).config_data)

\* C14: when the query of get_configuration(c) fails and the cache has no
\* entry for c, the call returns the default document, it does not raise.
C14_QueryFailureReadsDefault ==
    [][\A c \in FaultClients : \A f \in ReadFaults :
         (/\ f.db_query
          /\ _get_cache_key(c) \notin DOMAIN cache
          /\ get_configuration(c, f)) =>
           /\ last'.res.ok
           /\ last'.res.value = default_config]_vars

\* C15: a Redis call that raises is never surfaced: get_configuration still
\* returns the document of the table (or the default), save_configuration
\* and delete_configuration return as they do without the failure and their
\* change of the row is committed.
C15_CacheFailureNotSurfaced ==
    [][\A c \in FaultClients :
         /\ \A f \in ReadFaults :
              (/\ last'.op = "get"
               /\ ~f.db_query
               /\ f.cache_get \/ f.cache_set
               /\ get_configuration(c, f)) =>
                /\ last'.res.ok
                /\ (f.cache_get \/ _get_cache_key(c) \notin DOMAIN cache) =>
                     last'.res.value = StoredOrDefault(c)
                /\ db' = db
         /\ \A f \in WriteFaults : \A d \in SaveDocs :
              (/\ last'.op = "save" /\ last'.arg = d
               /\ f.cache_delete /\ ~f.db_query /\ ~f.db_commit
               /\ validate_configuration(d).ok
               /\ save_configuration(c, d, f)) =>
                /\ last'.res = Returned(TRUE)
                /\ \E n \in db' :
                     /\ n.client_id = c
                     /\ n.config_data = json_dumps(Stamp(d, clock'))
                     /\ n.updated_at = clock'
         /\ \A f \in WriteFaults :
              (/\ last'.op = "delete"
               /\ f.cache_delete /\ ~f.db_query /\ ~f.db_commit
               /\ delete_configuration(c, f)) =>
                /\ last'.res = Returned(c \in ClientIdsOf(db))
                /\ \A n \in db' : n.client_id = c => ~n.is_active]_vars

\* A get answered from the table although the cache, whose entry for the
\* client is still there, could not be read.
C15_Witness ==
    /\ last.op = "get"
    /\ last.source = "database"
    /\ last.res.ok
    /\ _get_cache_key(last.client) \in DOMAIN cache
    /\ json_loads(cache[_get_cache_key(last.client)]) # last.res.value

\* C16: when the write or the commit of save_configuration or
\* delete_configuration fails, the table is as before the call, the cache
\* entry is not invalidated and the call raises ConfigurationError with the
\* code SAVE_ERROR, DELETE_ERROR.
C16_WriteFailureRollsBack ==
    [][\A c \in FaultClients : \A f \in WriteFaults :
         /\ \A d \in SaveDocs :
              (/\ last'.op = "save" /\ last'.arg = d
               /\ f.db_commit
               /\ validate_configuration(d).ok
               /\ save_configuration(c, d, f)) =>
                /\ db' = db
                /\ cache' = cache
                /\ ~last'.res.ok
                /\ last'.res.code = "SAVE_ERROR"
         /\ (/\ last'.op = "delete"
             /\ f.db_commit
             /\ c \in ClientIdsOf(db)
             /\ delete_configuration(c, f)) =>
                /\ db' = db
                /\ cache' = cache
                /\ ~last'.res.ok
                /\ last'.res.code = "DELETE_ERROR"]_vars

\* A save that raised SAVE_ERROR while the client had a row and a cache
\* entry: both are still there.
C16_Witness ==
    /\ last.op = "save"
    /\ ~last.res.ok
    /\ last.res.code = "SAVE_ERROR"
    /\ _get_cache_key(last.client) \in DOMAIN cache
    /\ \E r \in db : r.client_id = last.client /\ r.is_active

RECURSIVE SumOfTokens(_)
\* The sum of ai_tokens_used over the rows of a sequence of messages.
SumOfTokens(rows) ==
    IF rows = <<>> THEN 0
    ELSE Head(rows).ai_tokens_used + SumOfTokens(Tail(rows))

\* C17: message_count of the chat session is the number of its stored
\* messages and total_tokens_used the sum of their ai_tokens_used, whatever
\* add_message calls have run, overlapped or failed.
C17_CountersMatchMessages ==
    /\ chat_session.message_count = Len(messages)
    /\ chat_session.total_tokens_used = SumOfTokens(messages)

\* C18: clear_cached_config, of one file or of all, returns True exactly
\* when the call deleted at least one key.
C18_ClearReturnsWhetherDeleted ==
    [][\A config_file \in ClearArgs :
         (flast'.op = "clear" /\ clear_cached_config(config_file)) =>
           (flast'.res.value <=> DOMAIN cache' # DOMAIN cache)]_vars

\* C19: a second clear of the cache right after the same clear, by
\* clear_cached_config or by POST /clear-cache, raises nothing and leaves
\* Redis and the memory cache as the first left them.
C19_ClearIsIdempotent ==
    [][/\ \A config_file \in ClearArgs :
            (/\ flast.op = "clear" /\ flast.args = config_file
             /\ flast'.op = "clear"
             /\ clear_cached_config(config_file)) =>
              /\ flast'.res.ok
              /\ cache' = cache
              /\ memo' = memo
       /\ (/\ flast.op = "clear_route"
           /\ flast'.op = "clear_route"
           /\ clear_configuration_cache) =>
              /\ flast'.res.ok
              /\ cache' = cache
              /\ memo' = memo]_vars

\* The second of two clears of client-config.json, whose entry was cached
\* by a load before them and with another file still cached.
C19_Witness ==
    /\ flast.op = "clear"
    /\ flast.twice
    /\ flast.args = <<"client-config.json">>
    /\ REDIS_AVAILABLE
    /\ <<"client-config.json">> \in DOMAIN memo
    /\ files["client-config.json"].kind = "json"
    /\ DOMAIN cache # {}

\* The keys of features that apply_environment_overrides sets from the
\* flags of the environment.
FlagKeys == {"debugRoutes", "adminPanel", "analyticsEnabled", "rateLimiting"}

\* result is the document base with the overrides of the environment: its
\* sections and keys, every CONFIG_ variable that is set written to its
\* section.key, the four flags of the environment in features, every other
\* value of base as it is.
IsOverridden(base, result) ==
    LET set == DOMAIN override_mappings \cap DOMAIN env
        flags == get_feature_flags
    IN  /\ DOMAIN result =
             DOMAIN base \cup {"features"}
                 \cup {override_mappings[e][1] : e \in set}
        /\ \A e \in set :
             LET m == override_mappings[e]
             IN  /\ m[2] \in DOMAIN result[m[1]]
                 /\ result[m[1]][m[2]] = Converted(env[e])
        /\ FlagKeys \subseteq DOMAIN result.features
        /\ result.features.debugRoutes = BoolVal(flags.debug_routes)
        /\ result.features.adminPanel = BoolVal(flags.admin_panel)
        /\ result.features.analyticsEnabled = BoolVal(flags.analytics)
        /\ result.features.rateLimiting = BoolVal(flags.rate_limiting)
        /\ \A section \in DOMAIN base : \A key \in DOMAIN base[section] :
             (/\ \A e \in set : override_mappings[e] # <<section, key>>
              /\ ~(section = "features" /\ key \in FlagKeys)
              /\ <<section, key>> # <<"branding", "companyName">>) =>
               /\ key \in DOMAIN result[section]
               /\ result[section][key] = base[section][key]

\* load_config(args) finds nothing in the memory cache and nothing in Redis.
CacheMiss(args) ==
    /\ args \notin DOMAIN memo
    /\ \/ ~REDIS_AVAILABLE
       \/ get_redis_key(ConfigFileOf(args)) \notin DOMAIN cache
       \/ ~Truthy(json_loads(cache[get_redis_key(ConfigFileOf(args))]))

C21_OverrideTableApplied ==
    flast.op = "apply" =>
        \A e \in DOMAIN override_mappings \cap DOMAIN env :
            LET m == override_mappings[e]
                result == flast.res.value
            IN  /\ m[1] \in DOMAIN result
                /\ m[2] \in DOMAIN result[m[1]]
                /\ result[m[1]][m[2]] = Converted(env[e])

\* The 'Minimal Valid Configuration': valid meta, branding, features, ui
\* and ai sections, and nothing else.
MinimalValid(config) ==
    /\ DOMAIN config = {"meta", "branding", "features", "ui", "ai"}
    /\ ConfigMeta(config.meta)
    /\ BrandingConfig(config.branding)
    /\ FeaturesConfig(config.features)
    /\ UIConfig(config.ui)
    /\ AIConfig(config.ai)

\* C25: a document with valid meta, branding, features, ui and ai sections
\* and no security section is accepted by validate_configuration and by
\* validate_config_structure.
C25_MinimalConfigAccepted ==
    MinimalValid(vdoc) =>
        /\ vres.code # "NOT_RUN" => vres.ok
        /\ sres # "unset" => sres = "True"

\* The entries of the memory cache for a file name: the results of the
\* loads of that name since the last cache_clear().
Memoized(config_file) ==
    {memo[b] : b \in {a \in DOMAIN memo : ConfigFileOf(a) = config_file}}

\* C22: once a file name has been loaded, every later load_config of that
\* name returns that result from memory, Redis and the file left alone,
\* whatever became of them, until the memory cache is cleared; after
\* reload_config of a file name the next load_config of that name returns
\* the content of the file, as the reload read it or as it is now.
C22_MemoizedPerFileName ==
    [][\A args \in RouteArgs :
         (/\ flast'.op = "load" /\ flast'.args = args
          /\ load_config(args, NoLoadFault)) =>
            /\ \A result \in Memoized(ConfigFileOf(args)) :
                   /\ flast'.res = Returned(result)
                   /\ flast'.source = "memory"
                   /\ cache' = cache
            /\ (/\ flast.op = "reload"
                /\ flast.res.ok
                /\ ConfigFileOf(flast.args) = ConfigFileOf(args)
                /\ files[ConfigFileOf(args)].kind = "json") =>
                   flast'.res \in
                       {flast.res,
                        Returned(apply_environment_overrides(
                                     files[ConfigFileOf(args)].data))}]_vars

\* After reload_config the next load_config of the file name returns the
\* content of the file, as the reload read it or as it is now.
LoadAfterReload ==
    [][\A args \in RouteArgs :
         (/\ flast'.op = "load" /\ flast'.args = args
          /\ load_config(args, NoLoadFault)
          /\ flast.op = "reload"
          /\ flast.res.ok
          /\ ConfigFileOf(flast.args) = ConfigFileOf(args)
          /\ files[ConfigFileOf(args)].kind = "json") =>
            flast'.res \in
                {flast.res,
                 Returned(apply_environment_overrides(
                              files[ConfigFileOf(args)].data))}]_vars

\* A load_config that repeats the arguments of an earlier one is answered
\* from memory.
MemoizedPerArguments ==
    [][\A args \in RouteArgs :
         (/\ flast'.op = "load" /\ flast'.args = args
          /\ load_config(args, NoLoadFault)
          /\ args \in DOMAIN memo) =>
            /\ flast'.res = Returned(memo[args])
            /\ flast'.source = "memory"
            /\ cache' = cache]_vars

\* The configuration a route is answered from.
RouteConfig == Loaded(cache, memo, <<>>, NoLoadFault).res

\* C24: GET /feature/{feature_name} for a name that the features of the
\* configuration do not have answers 404, and so does GET /{section} for a
\* section the configuration does not have.
C24_UnknownFeatureIs404 ==
    [][/\ \A feature_name \in RouteFeatureNames :
              (/\ flast'.op = "feature" /\ flast'.args = <<feature_name>>
               /\ get_feature_flag_route(feature_name)
               /\ RouteConfig.ok
               /\ feature_name \notin
                      DOMAIN GetSection(RouteConfig.value, "features")) =>
                  flast'.res = HTTPException("404")
       /\ \A section \in RouteSections :
              (/\ flast'.op = "section" /\ flast'.args = <<section>>
               /\ get_config_section(section)
               /\ RouteConfig.ok
               /\ section \notin DOMAIN RouteConfig.value) =>
                  flast'.res = HTTPException("404")]_vars

\* GET /{section} for a section the configuration does not have answers
\* 404.
UnknownSectionIs404 ==
    [][\A section \in RouteSections :
         (/\ flast'.op = "section" /\ flast'.args = <<section>>
          /\ get_config_section(section)
          /\ RouteConfig.ok
          /\ section \notin DOMAIN RouteConfig.value) =>
             flast'.res = HTTPException("404")]_vars

\* The documents on disk that load_config(config_file) reads: the named
\* file and the default file it falls back to.
BaseDocuments(config_file) ==
    {files[n].data : n \in {f \in {config_file, "default-config.json"} :
                               files[f].kind = "json"}}

\* C30: whenever the Redis entry of a configuration file is written, by
\* load_config or by POST /reload, it holds the document as read from
\* disk, no override of the environment and no injected feature flag in
\* it.
C30_CacheHoldsBaseDocument ==
    [][\A config_file \in FileNames :
         LET key == get_redis_key(config_file)
         IN  (/\ key \in DOMAIN cache'
              /\ key \in DOMAIN cache => cache'[key] # cache[key]) =>
                 json_loads(cache'[key]) \in BaseDocuments(config_file)]_vars

\* C23: on GET /, PUT / and DELETE / the client id the request operates
\* on is the bearer token it carried, so that requests with different
\* tokens operate on different clients.
C23_ClientIdIsToken ==
    last.op \in {"GET /", "PUT /", "DELETE /"} => last.client = last.arg.token

\* meta.clientId of the document a row stores
StoredClientId(r) == json_loads(r.config_data).meta.clientId

ListedFields(d) ==
    [version |-> GetOrNone(GetSection(d, "meta"), "version"),
     clientId |-> GetOrNone(GetSection(d, "meta"), "clientId"),
     configName |-> GetOrNone(GetSection(d, "meta"), "configName"),
     branding |-> GetOrNone(d, "branding"),
     features |-> GetOrNone(d, "features"),
     ui |-> GetOrNone(d, "ui"),
     languages |-> GetOrNone(d, "languages"),
     enabled |-> GetOrNone(GetSection(d, "analytics"), "enabled"),
     customEvents |-> GetOrNone(GetSection(d, "analytics"), "customEvents")]

\* The configuration the manager holds for a client.
FullConfig(client_id) == GetResult(client_id, NoFault).res.value

\* C27: two configurations that agree on meta.version, meta.clientId,
\* meta.configName, branding, features, ui, languages, analytics.enabled
\* and analytics.customEvents, whatever their ai, security and other
\* fields, get the same data from GET /public: the response to a request
\* equals the response to the request before it when the configurations
\* of their clients agree on those fields.
C27_PublicDataDependsOnListedFields ==
    (/\ last.op = "GET /public"
     /\ last.res.ok
     /\ last.afterSave # <<>>) =>
        (ListedFields(FullConfig(last.afterSave[1].client))
             = ListedFields(FullConfig(last.client))
         => last.res.value = last.afterSave[1].data)

\* C27 witness: two requests in a row were answered from configurations
\* that differ in ai, in security and in analytics.trackingId and agree on
\* the listed fields.
C27_Witness ==
    /\ last.op = "GET /public"
    /\ last.res.ok
    /\ last.afterSave # <<>>
    /\ LET d1 == FullConfig(last.afterSave[1].client)
           d2 == FullConfig(last.client)
       IN  /\ ListedFields(d1) = ListedFields(d2)
           /\ d1.ai # d2.ai
           /\ d1.security # d2.security
           /\ "analytics" \in DOMAIN d1 /\ "analytics" \in DOMAIN d2
           /\ d1.analytics # d2.analytics
           /\ last.res.value.analytics.enabled

\* C28: once every call of an interleaving of get, save and delete calls
\* for one client has completed, the cache entry of the client is absent
\* or is the document of the client's active row: no entry is left for a
\* soft-deleted client, none older than the last committed save.
C28_CacheCoherentWhenQuiescent ==
    (\A p \in Workers : pc[p] \in {"idle", "done"}) =>
        \A c \in ConcClients :
            _get_cache_key(c) \in DOMAIN cache =>
                \E r \in db : /\ r.client_id = c
                              /\ r.is_active
                              /\ cache[_get_cache_key(c)] = r.config_data

\* The row of a client in the table t: <<>> when there is none.
RowIn(t, c) == First({r \in t : r.client_id = c})

====
